---- MODULE Spec2Model ----
\* Release lifecycle and activation of the ploy deployment action:
\* deploy root layout, release directories, the `current` junction,
\* the step pipeline, and the health check retry loop.
EXTENDS Integers, Sequences, FiniteSets, TLC

\* ------------------------------------------------------------------ bounds
MaxTime == 1
MaxTrail == 1
MaxRetries == 2
MaxCmds == 2

\* ------------------------------------------------------------ basic values
\* optional values: <<>> is `undefined`, <<x>> is the value x
None == <<>>
Some(x) == <<x>>
Val(o) == o[1]
\* parseInt yields NaN as the absent number
NaN == None

Min2(a, b) == IF a < b THEN a ELSE b

Times == 0 .. MaxTime

\* process.env as seen by getShortSha: the three SHA variables ("" = unset)
\* Sha8 and Sha8b are two revisions that share their first seven characters
Sha8 == <<"a", "b", "c", "1", "2", "3", "4", "d">>
Sha8b == <<"a", "b", "c", "1", "2", "3", "4", "e">>
Envs ==
    { [GITHUB_SHA |-> <<>>, GITEA_SHA |-> <<>>, CI_COMMIT_SHA |-> <<>>],
      [GITHUB_SHA |-> Sha8, GITEA_SHA |-> <<>>, CI_COMMIT_SHA |-> <<>>],
      [GITHUB_SHA |-> Sha8b, GITEA_SHA |-> <<>>, CI_COMMIT_SHA |-> <<>>] }

Unknown == <<"u", "n", "k", "n", "o", "w", "n">>

getShortSha(env) ==
    LET sha == IF env.GITHUB_SHA # <<>> THEN env.GITHUB_SHA
               ELSE IF env.GITEA_SHA # <<>> THEN env.GITEA_SHA
               ELSE IF env.CI_COMMIT_SHA # <<>> THEN env.CI_COMMIT_SHA
               ELSE Unknown
    IN SubSeq(sha, 1, Min2(7, Len(sha)))

\* `${timestamp}-${shortSha}`: the timestamp has second granularity
releaseIdMut(t, env) == [ts |-> 0, rev |-> getShortSha(env)]
releaseId(t, env) == [ts |-> t, rev |-> getShortSha(env)]

\* the environment the deployments of one host run in
PipeEnvs == { e \in Envs : e.GITHUB_SHA = Sha8 }

RelIds == { releaseId(t, e) : t \in Times, e \in PipeEnvs }
AllRelIds == { releaseId(t, e) : t \in Times, e \in Envs }

\* a path under {root}/releases, with a number of trailing separators
releasePathOf(id) == [rel |-> id, trail |-> 0]

\* target.replace(/[\\]+$/, '')
StripTrailingMut(p) == p
StripTrailing(p) == [p EXCEPT !.trail = 0]

\* ------------------------------------------------------------- file system
SrcFiles == {"app.js"}
ForeignFiles == {"keep.txt"}

Absent == [kind |-> "absent", target |-> None]
LinkTo(id) == [kind |-> "link", target |-> Some(id)]
PlainFile == [kind |-> "file", target |-> None]
PlainDir == [kind |-> "dir", target |-> None]

EmptyFs ==
    [root |-> "absent", writable |-> TRUE, releasesDir |-> FALSE,
     releases |-> {}, files |-> [r \in AllRelIds |-> {}],
     current |-> Absent, curFiles |-> {}, probe |-> FALSE]

\* fs.access(junctionPath): follows the link, any error means "not there"
AccessOk(f) ==
    /\ f.root = "dir"
    /\ \/ f.current.kind \in {"file", "dir"}
       \/ f.current.kind = "link" /\ Val(f.current.target) \in f.releases

\* fs.lstat(targetPath).isSymbolicLink(), ENOENT -> false
isJunctionMut(f) == f.root = "dir" /\ f.current.kind # "absent"
isJunction(f) == f.root = "dir" /\ f.current.kind = "link"

\* fs.unlink(junctionPath): "ok", "ENOENT" or "EPERM" (a directory)
UnlinkCode(f) ==
    IF f.root # "dir" \/ f.current.kind = "absent" THEN "ENOENT"
    ELSE IF f.current.kind = "dir" THEN "EPERM"
    ELSE "ok"

UnlinkMut(f) ==
    [f EXCEPT !.current = Absent, !.curFiles = {},
              !.releases = IF f.current.kind = "link" THEN @ \ {Val(f.current.target)} ELSE @,
              !.files = IF f.current.kind = "link"
                        THEN [@ EXCEPT ![Val(f.current.target)] = {}] ELSE @]
Unlink(f) == [f EXCEPT !.current = Absent, !.curFiles = {}]

\* fs.symlink(targetPath, junctionPath, 'junction')
SymlinkCodeMut(f) ==
    IF f.root # "dir" THEN "ENOENT"
    ELSE "ok"
SymlinkCode(f) ==
    IF f.root # "dir" THEN "ENOENT"
    ELSE IF f.current.kind # "absent" THEN "EEXIST"
    ELSE "ok"

SymlinkMut(f, p) == [f EXCEPT !.current = PlainDir]
Symlink(f, p) == [f EXCEPT !.current = LinkTo(p.rel)]

\* fs.readlink(junctionPath): the stored target; a junction reads back with
\* trailing separators on win32
ReadlinkResults(f) ==
    IF f.root = "dir" /\ f.current.kind = "link"
    THEN { [rel |-> Val(f.current.target), trail |-> t] : t \in 0 .. MaxTrail }
    ELSE {}

getTargetResultsMut(f) == {None}
getTargetResults(f) ==
    IF ReadlinkResults(f) = {} THEN {None}
    ELSE { Some(StripTrailing(r)) : r \in ReadlinkResults(f) }

\* fs.readlink(junctionPath) as a call that can fail: "ok" with the stored
\* target, ENOENT or ENOTDIR when nothing is there, EINVAL when the entry is
\* not a link, and EIO or EACCES when the read itself fails
readlinkOutcomes(f) ==
    { [code |-> "ok", target |-> Some(r)] : r \in ReadlinkResults(f) }
    \cup { [code |-> c, target |-> None] :
            c \in {"EIO", "EACCES"} \cup
                  (IF f.root = "absent" THEN {"ENOENT"}
                   ELSE IF f.root = "file" THEN {"ENOTDIR"}
                   ELSE IF f.current.kind = "absent" THEN {"ENOENT"}
                   ELSE IF f.current.kind = "link" THEN {}
                   ELSE {"EINVAL"}) }

\* getTarget: try { return (await fs.readlink(p)).replace(...) } catch { return undefined }
\* threw: whether the call raises; value: what it returns
getTarget(out) ==
    IF out.code = "ok"
    THEN [threw |-> FALSE, value |-> Some(StripTrailing(Val(out.target)))]
    ELSE [threw |-> FALSE, value |-> None]

\* ------------------------------------------------------------ health check
\* strings are sequences of one-character strings
Str200to299 == <<"2", "0", "0", "-", "2", "9", "9">>
Str0to299 == <<"0", "-", "2", "9", "9">>
StrInvalid == <<"i", "n", "v", "a", "l", "i", "d">>
Str200 == <<"2", "0", "0">>
Str300to500 == <<"3", "0", "0", "-", "5", "0", "0">>
Ranges == {Str200to299, Str0to299, Str300to500, StrInvalid, Str200}

Statuses == {200, 299, 300, 500}

Digits == <<"0", "1", "2", "3", "4", "5", "6", "7", "8", "9">>
IsDigit(c) == \E i \in 1 .. 10 : Digits[i] = c
DigitVal(c) == (CHOOSE i \in 1 .. 10 : Digits[i] = c) - 1

\* String(n) of a natural number
RECURSIVE StringOf(_)
StringOf(n) ==
    IF n < 10 THEN <<Digits[n + 1]>>
    ELSE Append(StringOf(n \div 10), Digits[(n % 10) + 1])

\* s.padStart(2, '0')
padStartMut(s) == s
padStart(s) == IF Len(s) >= 2 THEN s ELSE <<"0">> \o s

\* what the local-time getters of `new Date()` return: getFullYear,
\* getMonth (0-based), getDate, getHours, getMinutes, getSeconds
Dates ==
    [year : {1970, 2025, 9999}, month : {0, 8, 9, 11}, date : {1, 9, 10, 31},
     hours : {0, 9, 23}, minutes : {0, 59}, seconds : {0, 59}]

\* generateTimestamp: `${year}${month}${day}-${hours}${minutes}${seconds}`
generateTimestamp(d) ==
    StringOf(d.year) \o padStart(StringOf(d.month + 1)) \o padStart(StringOf(d.date))
        \o <<"-">>
        \o padStart(StringOf(d.hours)) \o padStart(StringOf(d.minutes))
        \o padStart(StringOf(d.seconds))

\* `${timestamp}-${shortSha}` as the string the step builds
releaseIdString(d, env) == generateTimestamp(d) \o <<"-">> \o getShortSha(env)

\* environments with every combination of the three SHA variables set or unset
ShaShort == <<"a", "b">>
ShaGitea == <<"c", "a", "f", "e", "b", "a", "b", "e", "1">>
ShaCi == <<"d", "e", "a", "d", "b", "e", "e", "f">>
StampEnvs ==
    [GITHUB_SHA : {<<>>, Sha8, ShaShort}, GITEA_SHA : {<<>>, ShaGitea},
     CI_COMMIT_SHA : {<<>>, ShaCi}]

\* the white space characters of the inputs: the space and the line feed
WhiteSpace == {" ", "\n"}

RECURSIVE TrimStart(_)
TrimStart(s) ==
    IF s # <<>> /\ Head(s) \in WhiteSpace THEN TrimStart(Tail(s)) ELSE s

RECURSIVE TrimEnd(_)
TrimEnd(s) ==
    IF s # <<>> /\ s[Len(s)] \in WhiteSpace
    THEN TrimEnd(SubSeq(s, 1, Len(s) - 1))
    ELSE s

trim(s) == TrimEnd(TrimStart(s))

RECURSIVE LeadingDigits(_, _)
LeadingDigits(s, acc) ==
    IF s # <<>> /\ IsDigit(Head(s))
    THEN LeadingDigits(Tail(s), 10 * acc + DigitVal(Head(s)))
    ELSE acc

\* parseInt(s, 10): leading blanks, optional sign, then the longest digit prefix
parseInt(s) ==
    LET t == TrimStart(s)
        neg == t # <<>> /\ Head(t) = "-"
        u == IF t # <<>> /\ Head(t) \in {"-", "+"} THEN Tail(t) ELSE t
    IN IF u = <<>> \/ ~IsDigit(Head(u)) THEN NaN
       ELSE IF neg THEN Some(0 - LeadingDigits(u, 0)) ELSE Some(LeadingDigits(u, 0))

RECURSIVE SplitAcc(_, _, _)
SplitAcc(s, cur, acc) ==
    IF s = <<>> THEN Append(acc, cur)
    ELSE IF Head(s) = "-" THEN SplitAcc(Tail(s), <<>>, Append(acc, cur))
    ELSE SplitAcc(Tail(s), Append(cur, Head(s)), acc)

\* range.split('-')
split(s) == SplitAcc(s, <<>>, <<>>)

parseCodeRange(range) ==
    LET raw == split(range)
        parts == [i \in 1 .. Len(raw) |-> parseInt(trim(raw[i]))]
    IN IF Len(parts) # 2 \/ \E i \in 1 .. Len(parts) : parts[i] = NaN
       THEN [ok |-> FALSE, min |-> 0, max |-> 0]
       ELSE [ok |-> TRUE, min |-> Val(parts[1]), max |-> Val(parts[2])]

\* threw: parseCodeRange raised the invalid-range error
isStatusCodeInRange(statusCode, range) ==
    LET r == parseCodeRange(range)
    IN [threw |-> ~r.ok, inRange |-> r.ok /\ statusCode >= r.min /\ statusCode <= r.max]

\* what one fetch() does: a response, the abort timer firing, or a transport error
ErrMsgs == {"ECONNREFUSED", ""}
Outcomes ==
    { [kind |-> "response", status |-> s, msg |-> ""] : s \in Statuses }
    \cup { [kind |-> "timeout", status |-> 0, msg |-> ""] }
    \cup { [kind |-> "error", status |-> 0, msg |-> m] : m \in ErrMsgs }

performHealthCheckRequest(o) ==
    IF o.kind = "response"
    THEN [statusCode |-> o.status, success |-> o.status \in 200 .. 299, error |-> None]
    ELSE IF o.kind = "timeout"
    THEN [statusCode |-> 0, success |-> FALSE, error |-> Some("Request timed out")]
    ELSE [statusCode |-> 0, success |-> FALSE, error |-> Some(o.msg)]

\* JavaScript truthiness of result.error
Truthy(e) == e # None /\ Val(e) # ""

\* retries is parseInt of an unvalidated input: any integer, negative ones included
HCInputs ==
    [range : Ranges, timeout : {1}, retries : (0 - 1) .. MaxRetries,
     delay : {0, 1}, interval : {0, 1}]

\* health check inputs drawn by the pipeline's health check step
PipeHCInputs ==
    { i \in HCInputs : i.range \in {Str200to299, StrInvalid} /\ i.delay = 0 /\ i.interval = 0 }

\* locals of performHealthCheck, plus a record of what the endpoint did:
\* counts of the requests and sleeps made, the outcome of the latest request
\* (last), the status of the latest response received (lastResp) and whether
\* some response carried a status inside the parsed range (okSeen), and, where
\* durations are followed, the seconds spent in sleeps and requests (spent)
NoHC ==
    [in |-> None, attempt |-> 0, lastStatusCode |-> None, lastError |-> None,
     requests |-> 0, sleeps |-> 0, delays |-> 0, result |-> None,
     last |-> None, lastResp |-> None, okSeen |-> FALSE, spent |-> 0]

\* ---------------------------------------------------------------- state
VARIABLES
    fs,       \* the deploy root on disk
    now,      \* wall clock, in seconds
    pc,       \* position of the (single) thread of control; "idle" between calls
    call,     \* the entry point being executed, or the last one executed
    stage,    \* execute's loop index i
    started,  \* the steps whose run() execute has invoked, in order
    ctx,      \* ctx.outputs
    t0,       \* execute's start time
    upd,      \* arguments and locals of junction update / the switch step
    hc,       \* arguments and locals of performHealthCheck
    res,      \* how the last call ended
    pre,      \* the file system when the current (or last) call began
    hist      \* gen: the clock and revision the current run's id was made from;
              \* prior: the id the run before this one allocated, if a
              \* deployment run immediately preceded this one;
              \* before: the file system the previous call began with, if it
              \* was the same directory function and it returned;
              \* log: the commands started in the current run, in order;
              \* lens: the length of the list each command step was given;
              \* url: whether the healthcheck step was given a URL;
              \* cmds: the list a direct call of executeCommands was given;
              \* io: what the file system call of a direct getTarget or
              \* create did ("ok" or its error code)

vars == <<fs, now, pc, call, stage, started, ctx, t0, upd, hc, res, pre, hist>>

\* default mode: the ordered step list
StepsMut ==
    <<"envSetup", "installDeps", "build", "prepareReleaseDir", "copyFiles",
      "switchActiveRelease", "preDeployCmds", "postDeployCmds", "healthcheck">>
Steps ==
    <<"envSetup", "installDeps", "build", "prepareReleaseDir", "copyFiles",
      "preDeployCmds", "switchActiveRelease", "postDeployCmds", "healthcheck">>

NoOutputs ==
    [releaseId |-> None, releasePath |-> None, previousRelease |-> None,
     currentJunction |-> None, healthcheckStatus |-> None, healthcheckCode |-> None,
     healthcheckAttempts |-> None, deploymentTime |-> None, elapsed |-> None]

\* fs0: the file system when update was called; fault: an I/O error cut it short
NoUpd == [newPath |-> None, prev |-> None, fault |-> FALSE, fs0 |-> None]
NoRes == [status |-> "none", error |-> None, outputs |-> None]
NoHist ==
    [gen |-> None, prior |-> None, before |-> None, log |-> <<>>, lens |-> <<>>,
     url |-> None, cmds |-> None, io |-> None]

\* an Error object: the step that threw it (0 outside the pipeline) and its message
Err(at, msg) == [at |-> at, msg |-> msg, code |-> None, output |-> None]

\* a release id that an earlier deployment may have left behind
OldRel == releaseId(0, CHOOSE e \in PipeEnvs : TRUE)

RootDir == [EmptyFs EXCEPT !.root = "dir", !.releasesDir = TRUE]
WithOld == [RootDir EXCEPT !.releases = {OldRel}, !.files = [@ EXCEPT ![OldRel] = SrcFiles]]

InitLayouts ==
    { EmptyFs,
      [EmptyFs EXCEPT !.root = "file"],
      [EmptyFs EXCEPT !.root = "dir", !.writable = FALSE],
      RootDir,
      [WithOld EXCEPT !.current = LinkTo(OldRel)],
      [RootDir EXCEPT !.current = LinkTo(OldRel)],
      [WithOld EXCEPT !.current = PlainDir, !.curFiles = ForeignFiles],
      [WithOld EXCEPT !.current = PlainFile, !.curFiles = ForeignFiles] }

Init ==
    /\ fs \in InitLayouts
    /\ now = 0
    /\ pc = "idle"
    /\ call = "none"
    /\ stage = 0
    /\ started = <<>>
    /\ ctx = NoOutputs
    /\ t0 = 0
    /\ upd = NoUpd
    /\ hc = NoHC
    /\ res = NoRes
    /\ pre = fs
    /\ hist = NoHist

Tick ==
    /\ now < MaxTime
    /\ now' = now + 1
    /\ UNCHANGED <<fs, pc, call, stage, started, ctx, t0, upd, hc, res, pre, hist>>

\* ------------------------------------------------------ pipeline: execute
\* execute has no try/catch: a step's error rejects the run as it is
RejectMut(e) == [status |-> "error", error |-> Some([e EXCEPT !.at = 0]), outputs |-> None]
Reject(e) == [status |-> "error", error |-> Some(e), outputs |-> None]

Throw(e) ==
    /\ pc' = "idle"
    /\ call' = call
    /\ res' = Reject(e)

AtStep(name) ==
    /\ call = "deploy"
    /\ pc = "step"
    /\ stage <= Len(Steps)
    /\ Steps[stage] = name

\* await step.run(ctx) returned: i++
StepReturns ==
    /\ pc' = "step"
    /\ stage' = stage + 1

StartDeploy ==
    /\ pc = "idle"
    /\ pc' = "step"
    /\ call' = "deploy"
    /\ stage' = 1
    /\ started' = <<>>
    /\ ctx' = NoOutputs
    /\ t0' = now
    /\ upd' = NoUpd
    /\ hc' = NoHC
    /\ res' = NoRes
    /\ pre' = fs
    /\ hist' = [gen |-> None,
                prior |-> IF call = "deploy" /\ ctx.releaseId # None
                          THEN Some([id |-> Val(ctx.releaseId), gen |-> hist.gen,
                                     switched |-> ctx.currentJunction # None])
                          ELSE None,
                before |-> None, log |-> <<>>, lens |-> <<>>, url |-> None,
                cmds |-> None, io |-> None]
    /\ UNCHANGED <<fs, now>>

\* ensureDeployRoot: "ok", or the message of the error it wraps. fs.stat
\* follows by fs.mkdir when the root is missing; a root that is not a
\* directory throws before anything is written; an unwritable root fails the
\* fs.writeFile of the probe
ensureDeployRootCodeMut(f) ==
    IF f.root = "dir" /\ ~f.writable THEN "EACCES"
    ELSE "ok"
ensureDeployRootCode(f) ==
    IF f.root = "file" THEN "not a directory"
    ELSE IF f.root = "dir" /\ ~f.writable THEN "EACCES"
    ELSE "ok"

\* fs.writeFile(testFile, '') and fs.unlink(testFile) on {root}/.write-test
WriteTest(f) == [f EXCEPT !.probe = TRUE]
UnlinkTestMut(f) == f
UnlinkTest(f) == [f EXCEPT !.probe = FALSE]

\* the file system after ensureDeployRoot, which stops at the first error
ensureDeployRoot(f) ==
    IF ensureDeployRootCode(f) # "ok" THEN f
    ELSE LET made == [f EXCEPT !.root = "dir"]
             probed == UnlinkTest(WriteTest(made))
         IN [probed EXCEPT !.releasesDir = TRUE]

\* env-setup step
EnvSetup ==
    /\ AtStep("envSetup")
    /\ started' = Append(started, stage)
    /\ fs' = ensureDeployRoot(fs)
    /\ IF ensureDeployRootCode(fs) # "ok"
       THEN /\ Throw(Err(stage, "Failed to setup deploy root"))
            /\ UNCHANGED stage
       ELSE /\ StepReturns
            /\ UNCHANGED <<call, res>>
    /\ UNCHANGED <<now, ctx, t0, upd, hc, pre, hist>>

\* a direct call of ensureDeployRoot(deployRoot)
CallEnsureDeployRoot ==
    /\ pc = "idle"
    /\ pc' = "idle"
    /\ call' = "ensure"
    /\ pre' = fs
    /\ hist' = [NoHist EXCEPT !.before = IF call = "ensure" /\ res.status = "ok"
                                         THEN Some(pre) ELSE None]
    /\ fs' = ensureDeployRoot(fs)
    /\ res' = IF ensureDeployRootCode(fs) # "ok"
              THEN Reject(Err(0, ensureDeployRootCode(fs)))
              ELSE [status |-> "ok", error |-> None, outputs |-> None]
    /\ UNCHANGED <<now, stage, started, ctx, t0, upd, hc>>

\* what one command does: its exit code (0: success) and captured output
OkCmd == [code |-> 0, stdout |-> "", stderr |-> ""]
FailCmd == [code |-> 1, stdout |-> "", stderr |-> "e"]
PipeCmds == {OkCmd, FailCmd}
AllCmds == {OkCmd} \cup [code : {1, 2}, stdout : {"", "o"}, stderr : {"", "e"}]

\* a command list input over the commands cs; an absent input and an empty
\* list are both <<>>
CmdInputs(cs) == UNION { [1 .. n -> cs] : n \in 0 .. MaxCmds }

\* executeCommands: the 1-based index of the first failing command, 0 if none fails
RECURSIVE FirstFailure(_, _)
FirstFailure(cmds, i) ==
    IF i > Len(cmds) THEN 0
    ELSE IF cmds[i].code # 0 THEN i
    ELSE FirstFailure(cmds, i + 1)

executeCommands(cmds) == FirstFailure(cmds, 1)

\* the indexes of the commands executeCommands starts: the loop awaits each
\* command and a throw leaves it
RanMut(cmds) == 1 .. Len(cmds)
Ran(cmds) ==
    IF executeCommands(cmds) = 0 THEN 1 .. Len(cmds) ELSE 1 .. executeCommands(cmds)

\* executeCommand's error: `Command failed ... Exit code: ${code} ... ${stderr || stdout || 'No output'}`
CmdErr(at, c) ==
    [at |-> at, msg |-> "Command failed", code |-> Some(c.code),
     output |-> Some(IF c.stderr # "" THEN c.stderr
                     ELSE IF c.stdout # "" THEN c.stdout
                     ELSE "No output")]

\* the log entries of the commands started from the list cmds by step at in cwd
RECURSIVE LogOf(_, _, _, _)
LogOf(cmds, at, cwd, i) ==
    IF i \notin Ran(cmds) THEN <<>>
    ELSE <<[step |-> at, idx |-> i, cwd |-> cwd]>> \o LogOf(cmds, at, cwd, i + 1)

\* `if (ctx.inputs.xCmds && ctx.inputs.xCmds.length > 0)`: the step calls
\* executeCommands, otherwise it logs that it is skipped
ShouldRun(cmds) == cmds # <<>> /\ Len(cmds) > 0

\* install-deps, build, pre-deploy and post-deploy steps, the input list being
\* over the commands cs; keep: whether the started commands are logged.
\* install and build run in the repository (cwd None), the others in the release
CmdStepIn(name, needsRelease, cs, keep) ==
    /\ AtStep(name)
    /\ started' = Append(started, stage)
    /\ \E cmds \in CmdInputs(cs) :
        IF needsRelease /\ ctx.releasePath = None
        THEN /\ Throw(Err(stage, "Release path is not defined in context outputs."))
             /\ UNCHANGED <<stage, hist>>
        ELSE /\ hist' = IF keep
                        THEN [hist EXCEPT
                                !.lens = Append(@, [step |-> stage, n |-> Len(cmds)]),
                                !.log = IF ShouldRun(cmds)
                                        THEN @ \o LogOf(cmds, stage,
                                               IF needsRelease THEN ctx.releasePath
                                               ELSE None, 1)
                                        ELSE @]
                        ELSE hist
             /\ IF ShouldRun(cmds) /\ executeCommands(cmds) # 0
                THEN /\ Throw(CmdErr(stage, cmds[executeCommands(cmds)]))
                     /\ UNCHANGED stage
                ELSE /\ StepReturns
                     /\ UNCHANGED <<call, res>>
    /\ UNCHANGED <<fs, now, ctx, t0, upd, hc, pre>>

CmdStep(name, needsRelease) == CmdStepIn(name, needsRelease, PipeCmds, FALSE)

\* a direct call of executeCommands(commands, cwd, description)
CallExecuteCommands ==
    /\ pc = "idle"
    /\ pc' = "idle"
    /\ call' = "commands"
    /\ pre' = fs
    /\ \E cmds \in CmdInputs(AllCmds), cwd \in {None, Some(releasePathOf(OldRel))} :
        /\ hist' = [NoHist EXCEPT !.cmds = Some(cmds), !.log = LogOf(cmds, 0, cwd, 1)]
        /\ res' = IF executeCommands(cmds) # 0
                  THEN Reject(CmdErr(0, cmds[executeCommands(cmds)]))
                  ELSE [status |-> "ok", error |-> None, outputs |-> None]
    /\ UNCHANGED <<fs, now, stage, started, ctx, t0, upd, hc>>

InstallDeps == CmdStep("installDeps", FALSE)
Build == CmdStep("build", FALSE)
PreDeployCmds == CmdStep("preDeployCmds", TRUE)
PostDeployCmds == CmdStep("postDeployCmds", TRUE)

\* fs.mkdir(releasePath, { recursive: true }): "ok" or the error code; an
\* existing directory is not an error, a missing one needs a writable parent
mkdirCodeMut(f, id) ==
    IF f.root = "file" THEN "ENOTDIR"
    ELSE IF f.root = "dir" /\ f.releasesDir /\ id \in f.releases THEN "EEXIST"
    ELSE IF f.root = "dir" /\ ~f.writable THEN "EACCES"
    ELSE "ok"
mkdirCode(f, id) ==
    IF f.root = "file" THEN "ENOTDIR"
    ELSE IF f.root = "dir" /\ f.releasesDir /\ id \in f.releases THEN "ok"
    ELSE IF f.root = "dir" /\ ~f.writable THEN "EACCES"
    ELSE "ok"

\* the file system after the mkdir has succeeded
createReleaseDirectoryMut(f, id) == [f EXCEPT !.root = "dir", !.releasesDir = TRUE]
createReleaseDirectory(f, id) ==
    [f EXCEPT !.root = "dir", !.releasesDir = TRUE, !.releases = @ \cup {id}]

\* prepare-release-dir step, the process environment being one of envs
PrepareIn(envs) ==
    /\ AtStep("prepareReleaseDir")
    /\ started' = Append(started, stage)
    /\ \E env \in envs :
        LET id == releaseId(now, env)
        IN IF mkdirCode(fs, id) # "ok"
           THEN /\ Throw(Err(stage, "Failed to create release directory"))
                /\ UNCHANGED <<fs, stage, ctx, hist>>
           ELSE /\ fs' = createReleaseDirectory(fs, id)
                /\ ctx' = [ctx EXCEPT !.releaseId = Some(id),
                                      !.releasePath = Some(releasePathOf(id))]
                /\ hist' = [hist EXCEPT !.gen = Some([t |-> now, env |-> env])]
                /\ StepReturns
                /\ UNCHANGED <<call, res>>
    /\ UNCHANGED <<now, t0, upd, hc, pre>>

\* a direct call of createReleaseDirectory(deployRoot, id)
CreateCall(id) ==
    /\ pc = "idle"
    /\ pc' = "idle"
    /\ call' = "create"
    /\ pre' = fs
    /\ hist' = [gen |-> None,
                prior |-> IF call = "create" /\ res.status = "ok"
                          THEN Some([id |-> Val(res.outputs).rel, gen |-> None,
                                     switched |-> FALSE])
                          ELSE None,
                before |-> None, log |-> <<>>, lens |-> <<>>, url |-> None,
                cmds |-> None, io |-> None]
    /\ IF mkdirCode(fs, id) # "ok"
       THEN /\ res' = Reject(Err(0, "Failed to create release directory"))
            /\ UNCHANGED fs
       ELSE /\ fs' = createReleaseDirectory(fs, id)
            /\ res' = [status |-> "ok", error |-> None, outputs |-> Some(releasePathOf(id))]
    /\ UNCHANGED <<now, stage, started, ctx, t0, upd, hc>>

CallCreateReleaseDirectory == \E id \in AllRelIds : CreateCall(id)

PrepareReleaseDir == PrepareIn(PipeEnvs)

\* dist_dir input: absent, an existing directory, or a missing one
DistDirs == {"none", "dist", "missing"}

copyFiles(f, p) == [f EXCEPT !.files = [@ EXCEPT ![p.rel] = @ \cup SrcFiles]]

CopyFiles ==
    /\ AtStep("copyFiles")
    /\ started' = Append(started, stage)
    /\ \E distDir \in DistDirs :
        IF ctx.releasePath = None
        THEN /\ Throw(Err(stage, "Release path is not defined in context outputs."))
             /\ UNCHANGED <<fs, stage>>
        ELSE IF distDir = "missing"
        THEN /\ Throw(Err(stage, "dist_dir does not exist"))
             /\ UNCHANGED <<fs, stage>>
        ELSE /\ fs' = copyFiles(fs, Val(ctx.releasePath))
             /\ StepReturns
             /\ UNCHANGED <<call, res>>
    /\ UNCHANGED <<now, ctx, t0, upd, hc, pre, hist>>

\* -------------------------------------------------------------- junction
\* switch-active-release step, up to the call of junction.update
SwitchActiveRelease ==
    /\ AtStep("switchActiveRelease")
    /\ started' = Append(started, stage)
    /\ IF ctx.releasePath = None
       THEN /\ Throw(Err(stage, "Release path is not defined in context outputs."))
            /\ UNCHANGED upd
       ELSE /\ \E prev \in getTargetResults(fs) :
                upd' = [newPath |-> ctx.releasePath, prev |-> prev,
                        fault |-> FALSE, fs0 |-> Some(fs)]
            /\ pc' = "upd_access"
            /\ UNCHANGED <<call, res>>
    /\ UNCHANGED <<fs, now, stage, ctx, t0, hc, pre, hist>>

\* a direct call of junction.update(currentPath, newPath)
CallUpdate ==
    /\ pc = "idle"
    /\ \E id \in RelIds :
        upd' = [newPath |-> Some(releasePathOf(id)), prev |-> None,
                fault |-> FALSE, fs0 |-> Some(fs)]
    /\ pc' = "upd_access"
    /\ call' = "update"
    /\ res' = NoRes
    /\ pre' = fs
    /\ hist' = NoHist
    /\ UNCHANGED <<fs, now, stage, started, ctx, t0, hc>>

\* a junction function throws: to execute's caller, or to the direct caller
JunctionThrows(msg) ==
    Throw(Err(IF call = "deploy" THEN stage ELSE 0, msg))

\* const exists = await fs.access(junctionPath).then(() => true).catch(() => false)
UpdAccess ==
    /\ pc = "upd_access"
    /\ pc' = IF AccessOk(fs) THEN "upd_lstat" ELSE "upd_symlink"
    /\ UNCHANGED <<fs, now, call, stage, started, ctx, t0, upd, hc, res, pre, hist>>

\* if (!(await isJunction(junctionPath))) throw ...
UpdLstat ==
    /\ pc = "upd_lstat"
    /\ IF isJunction(fs)
       THEN /\ pc' = "upd_unlink"
            /\ UNCHANGED <<call, res>>
       ELSE JunctionThrows("exists but is not a junction")
    /\ UNCHANGED <<fs, now, stage, started, ctx, t0, upd, hc, pre, hist>>

\* await remove(junctionPath), inside update; io = FALSE is an I/O error of the call
UpdUnlink ==
    /\ pc = "upd_unlink"
    /\ \E io \in BOOLEAN :
        IF io /\ UnlinkCode(fs) = "ok"
        THEN /\ fs' = Unlink(fs)
             /\ pc' = "upd_symlink"
             /\ UNCHANGED <<call, res, upd>>
        ELSE IF io /\ UnlinkCode(fs) = "ENOENT"
        THEN /\ pc' = "upd_symlink"
             /\ UNCHANGED <<fs, call, res, upd>>
        ELSE /\ JunctionThrows("Failed to remove junction")
             /\ upd' = [upd EXCEPT !.fault = ~io]
             /\ UNCHANGED fs
    /\ UNCHANGED <<now, stage, started, ctx, t0, hc, pre, hist>>

\* await create(junctionPath, newPath), inside update
UpdSymlink ==
    /\ pc = "upd_symlink"
    /\ \E io \in BOOLEAN :
        IF io /\ SymlinkCode(fs) = "ok"
        THEN /\ fs' = Symlink(fs, Val(upd.newPath))
             /\ pc' = "upd_done"
             /\ UNCHANGED <<call, res, upd>>
        ELSE /\ JunctionThrows("Failed to create junction")
             /\ upd' = [upd EXCEPT !.fault = ~io]
             /\ UNCHANGED fs
    /\ UNCHANGED <<now, stage, started, ctx, t0, hc, pre, hist>>

\* update returned to the switch step: ctx.outputs = {...ctx.outputs, previousRelease, currentJunction}
SwitchDone ==
    /\ pc = "upd_done"
    /\ call = "deploy"
    /\ ctx' = [ctx EXCEPT !.previousRelease = upd.prev, !.currentJunction = Some("current")]
    /\ StepReturns
    /\ UNCHANGED <<fs, now, call, started, t0, upd, hc, res, pre, hist>>

\* update returned to a direct caller
UpdateReturns ==
    /\ pc = "upd_done"
    /\ call = "update"
    /\ pc' = "idle"
    /\ call' = call
    /\ res' = [status |-> "ok", error |-> None, outputs |-> None]
    /\ UNCHANGED <<fs, now, stage, started, ctx, t0, upd, hc, pre, hist>>

\* a direct call of junction.remove(junctionPath)
CallRemove ==
    /\ pc = "idle"
    /\ pre' = fs
    /\ hist' = NoHist
    /\ upd' = NoUpd
    /\ \E io \in BOOLEAN :
        IF io /\ UnlinkCode(fs) = "ok"
        THEN /\ fs' = Unlink(fs)
             /\ res' = [status |-> "ok", error |-> None, outputs |-> None]
        ELSE IF io /\ UnlinkCode(fs) = "ENOENT"
        THEN /\ fs' = fs
             /\ res' = [status |-> "ok", error |-> None, outputs |-> None]
        ELSE /\ fs' = fs
             /\ res' = Reject(Err(0, "Failed to remove junction"))
    /\ call' = "remove"
    /\ UNCHANGED <<now, pc, stage, started, ctx, t0, hc>>

\* a direct call of junction.getTarget(junctionPath)
CallGetTarget ==
    /\ pc = "idle"
    /\ pc' = "idle"
    /\ call' = "getTarget"
    /\ pre' = fs
    /\ upd' = NoUpd
    /\ \E out \in readlinkOutcomes(fs) :
        /\ hist' = [NoHist EXCEPT !.io = Some(out.code)]
        /\ res' = IF getTarget(out).threw
                  THEN Reject(Err(0, out.code))
                  ELSE [status |-> "ok", error |-> None, outputs |-> getTarget(out).value]
    /\ UNCHANGED <<fs, now, stage, started, ctx, t0, hc>>

\* a direct call of junction.create(junctionPath, targetPath); io = FALSE is
\* an I/O error of the call
CallCreate ==
    /\ pc = "idle"
    /\ pc' = "idle"
    /\ call' = "junctionCreate"
    /\ pre' = fs
    /\ \E id \in RelIds, io \in BOOLEAN :
        LET code == IF io THEN SymlinkCode(fs) ELSE "EIO"
        IN /\ hist' = [NoHist EXCEPT !.io = Some(code)]
           /\ upd' = [NoUpd EXCEPT !.newPath = Some(releasePathOf(id))]
           /\ IF code = "ok"
              THEN /\ fs' = Symlink(fs, releasePathOf(id))
                   /\ res' = [status |-> "ok", error |-> None, outputs |-> None]
              ELSE /\ fs' = fs
                   /\ res' = Reject(Err(0, "Failed to create junction"))
    /\ UNCHANGED <<now, stage, started, ctx, t0, hc>>

\* ------------------------------------------------------ performHealthCheck
BeginHC(in) == [NoHC EXCEPT !.in = Some(in)]

HCResult(threw, success, statusCode, attempts, error) ==
    [threw |-> threw, success |-> success, statusCode |-> statusCode,
     attempts |-> attempts, error |-> error]

\* healthcheck step, up to the call of the health check
\* urls: whether the healthcheck_url input may be set (TRUE) or unset (FALSE)
\* `if (ctx.inputs.healthcheckUrl)`: url is whether a non-empty URL is configured
UrlGivenMut(url) == TRUE
UrlGiven(url) == url

HealthcheckWith(urls) ==
    /\ AtStep("healthcheck")
    /\ started' = Append(started, stage)
    /\ \E url \in urls :
        /\ hist' = [hist EXCEPT !.url = Some(url)]
        /\ IF UrlGiven(url)
           THEN /\ \E in \in PipeHCInputs : hc' = BeginHC(in)
                /\ pc' = "hc_delay"
                /\ UNCHANGED stage
           ELSE /\ StepReturns
                /\ UNCHANGED hc
    /\ UNCHANGED <<fs, now, call, ctx, t0, upd, res, pre>>

HealthcheckStep == HealthcheckWith(BOOLEAN)

\* a direct call of performHealthCheck with inputs drawn from ins
CallHealthWith(ins) ==
    /\ pc = "idle"
    /\ \E in \in ins : hc' = BeginHC(in)
    /\ pc' = "hc_delay"
    /\ call' = "health"
    /\ res' = NoRes
    /\ pre' = fs
    /\ hist' = NoHist
    /\ UNCHANGED <<fs, now, stage, started, ctx, t0, upd>>

CallHealth == CallHealthWith(HCInputs)

\* sleep(seconds): setTimeout(resolve, seconds * 1000) takes that many seconds
sleepMut(seconds) == seconds + 1
sleep(seconds) == seconds

\* `await fetch(url, { signal })` settles for every outcome: the endpoint
\* answers, the transport fails, or the request's own timer aborts it
SettlesMut(o) == FALSE
Settles(o) == o.kind \in {"response", "timeout", "error"}

\* how long one request can take: the abort timer fires after timeout
\* seconds, a response or a transport error comes before that
RequestDurations(o, timeout) ==
    IF o.kind = "timeout" THEN {timeout} ELSE 0 .. timeout

\* if (delay > 0) await sleep(delay); then attempt = 1
\* timed: whether the durations are followed
HCDelayIn(timed) ==
    /\ pc = "hc_delay"
    /\ hc' = [hc EXCEPT !.delays = IF Val(hc.in).delay > 0 THEN @ + 1 ELSE @,
                        !.spent = IF timed /\ Val(hc.in).delay > 0
                                  THEN @ + sleep(Val(hc.in).delay) ELSE @,
                        !.attempt = 1]
    /\ pc' = "hc_loop"
    /\ UNCHANGED <<fs, now, call, stage, started, ctx, t0, upd, res, pre, hist>>

HCDelay == HCDelayIn(FALSE)

\* the value performHealthCheck returns from inside the loop, if it does
AttemptResultMut(in, attempt, r) ==
    IF Truthy(r.error) THEN None
    ELSE LET chk == isStatusCodeInRange(r.statusCode, in.range)
         IN IF chk.threw THEN Some(HCResult(TRUE, FALSE, None, attempt, None))
            ELSE IF r.success
            THEN Some(HCResult(FALSE, TRUE, Some(r.statusCode), attempt, None))
            ELSE None
AttemptResult(in, attempt, r) ==
    IF Truthy(r.error) THEN None
    ELSE LET chk == isStatusCodeInRange(r.statusCode, in.range)
         IN IF chk.threw THEN Some(HCResult(TRUE, FALSE, None, attempt, None))
            ELSE IF chk.inRange
            THEN Some(HCResult(FALSE, TRUE, Some(r.statusCode), attempt, None))
            ELSE None

\* `if (attempt < retries)`: this was not the last allowed attempt
NotLastAttemptMut(attempt, retries) == attempt <= retries
NotLastAttempt(attempt, retries) == attempt < retries

\* one iteration of the loop, up to the interval sleep
HCAttemptIn(timed) ==
    /\ pc = "hc_loop"
    /\ hc.attempt <= Val(hc.in).retries
    /\ \E o \in { x \in Outcomes : Settles(x) } :
       \E d \in IF timed THEN RequestDurations(o, Val(hc.in).timeout) ELSE {0} :
        LET in == Val(hc.in)
            r == performHealthCheckRequest(o)
            ret == AttemptResult(in, hc.attempt, r)
            seen == [hc EXCEPT !.requests = @ + 1,
                               !.spent = @ + d,
                               !.last = Some(o),
                               !.lastResp = IF o.kind = "response" THEN Some(o.status) ELSE @,
                               !.okSeen = @ \/ (o.kind = "response"
                                                 /\ isStatusCodeInRange(o.status, in.range).inRange),
                               !.lastStatusCode = Some(r.statusCode),
                               !.lastError = IF Truthy(r.error) THEN r.error
                                             ELSE IF ret = None
                                             THEN Some("outside expected range")
                                             ELSE @]
        IN IF ret # None
           THEN /\ hc' = [seen EXCEPT !.result = ret]
                /\ pc' = "hc_done"
           ELSE IF NotLastAttempt(hc.attempt, in.retries)
           THEN /\ hc' = seen
                /\ pc' = "hc_sleep"
           ELSE /\ hc' = [seen EXCEPT !.attempt = @ + 1]
                /\ pc' = "hc_loop"
    /\ UNCHANGED <<fs, now, call, stage, started, ctx, t0, upd, res, pre, hist>>

HCAttempt == HCAttemptIn(FALSE)

\* await sleep(interval); attempt++
HCSleepIn(timed) ==
    /\ pc = "hc_sleep"
    /\ hc' = [hc EXCEPT !.sleeps = @ + 1, !.attempt = @ + 1,
                        !.spent = IF timed THEN @ + sleep(Val(hc.in).interval) ELSE @]
    /\ pc' = "hc_loop"
    /\ UNCHANGED <<fs, now, call, stage, started, ctx, t0, upd, res, pre, hist>>

HCSleep == HCSleepIn(FALSE)

\* the loop ended without a return: all attempts failed
HCExhausted ==
    /\ pc = "hc_loop"
    /\ hc.attempt > Val(hc.in).retries
    /\ hc' = [hc EXCEPT !.result =
                Some(HCResult(FALSE, FALSE, hc.lastStatusCode, Val(hc.in).retries,
                              IF Truthy(hc.lastError) THEN hc.lastError
                              ELSE Some("Health check failed")))]
    /\ pc' = "hc_done"
    /\ UNCHANGED <<fs, now, call, stage, started, ctx, t0, upd, res, pre, hist>>

\* performHealthCheck returned (or threw) to a direct caller
HealthReturns ==
    /\ pc = "hc_done"
    /\ call = "health"
    /\ pc' = "idle"
    /\ res' = IF Val(hc.result).threw
              THEN Reject(Err(0, "Invalid health check code range"))
              ELSE [status |-> "ok", error |-> None, outputs |-> None]
    /\ UNCHANGED <<fs, now, call, stage, started, ctx, t0, upd, hc, pre, hist>>

\* if (!healthCheck.success) throw new Error(`Health check failed: ...`)
HealthStepFailsMut(r) == FALSE
HealthStepFails(r) == ~r.success

\* the health check returned (or threw) to the healthcheck step
HealthcheckStepDone ==
    /\ pc = "hc_done"
    /\ call = "deploy"
    /\ LET r == Val(hc.result)
       IN IF r.threw
          THEN /\ Throw(Err(stage, "Invalid health check code range"))
               /\ UNCHANGED <<ctx, stage>>
          ELSE /\ ctx' = [ctx EXCEPT
                            !.healthcheckStatus = Some(IF r.success THEN "passed" ELSE "failed"),
                            !.healthcheckCode = r.statusCode,
                            !.healthcheckAttempts = Some(r.attempts)]
               /\ IF HealthStepFails(r)
                  THEN /\ Throw(Err(stage, "Health check failed"))
                       /\ UNCHANGED stage
                  ELSE /\ StepReturns
                       /\ UNCHANGED <<call, res>>
    /\ UNCHANGED <<fs, now, started, t0, upd, hc, pre, hist>>

\* after the loop: stamp deploymentTime and elapsed, return ctx.outputs
StampMut ==
    /\ call = "deploy"
    /\ pc = "step"
    /\ stage > Len(Steps)
    /\ ctx' = [NoOutputs EXCEPT !.deploymentTime = Some(now), !.elapsed = Some(now - t0)]
    /\ res' = [status |-> "ok", error |-> None, outputs |-> Some(ctx')]
    /\ pc' = "idle"
    /\ UNCHANGED <<fs, now, call, stage, started, t0, upd, hc, pre, hist>>
Stamp ==
    /\ call = "deploy"
    /\ pc = "step"
    /\ stage > Len(Steps)
    /\ ctx' = [ctx EXCEPT !.deploymentTime = Some(now), !.elapsed = Some(now - t0)]
    /\ res' = [status |-> "ok", error |-> None, outputs |-> Some(ctx')]
    /\ pc' = "idle"
    /\ UNCHANGED <<fs, now, call, stage, started, t0, upd, hc, pre, hist>>

\* setOutputs(outputs): the action outputs it publishes with core.setOutput;
\* an optional field that is undefined is not published
setOutputs(o) ==
    [release_path |-> o.releasePath, release_id |-> o.releaseId,
     deployment_time |-> o.deploymentTime, current_junction |-> o.currentJunction,
     previous_release |-> o.previousRelease,
     healthcheck_status |-> o.healthcheckStatus]

\* run: `outputs = await steps.execute(...); setOutputs(outputs)`. What a
\* finished run has published: nothing when execute rejected
Published ==
    IF call = "deploy" /\ pc = "idle" /\ res.status = "ok"
    THEN Some(setOutputs(Val(res.outputs)))
    ELSE None

\* ------------------------------------------------------- specifications
\* deployments and direct junction calls, one after the other
Next ==
    \/ Tick
    \/ StartDeploy
    \/ EnvSetup
    \/ InstallDeps
    \/ Build
    \/ PrepareReleaseDir
    \/ CopyFiles
    \/ PreDeployCmds
    \/ SwitchActiveRelease
    \/ UpdAccess
    \/ UpdLstat
    \/ UpdUnlink
    \/ UpdSymlink
    \/ SwitchDone
    \/ PostDeployCmds
    \/ HealthcheckStep
    \/ HCDelay
    \/ HCAttempt
    \/ HCSleep
    \/ HCExhausted
    \/ HealthcheckStepDone
    \/ Stamp
    \/ CallUpdate
    \/ UpdateReturns
    \/ CallRemove

Spec == Init /\ [][Next]_vars

\* performHealthCheck alone, called directly with every input
InitHC == Init /\ fs = RootDir

NextHC ==
    \/ CallHealth
    \/ HCDelay
    \/ HCAttempt
    \/ HCSleep
    \/ HCExhausted
    \/ HealthReturns

SpecHC == InitHC /\ [][NextHC]_vars

\* the same, every timer firing and every request settling: a pending sleep,
\* request or return is eventually resumed by the event loop
SpecHCLive ==
    /\ InitHC
    /\ [][NextHC]_vars
    /\ WF_vars(HCDelay)
    /\ WF_vars(HCAttempt)
    /\ WF_vars(HCSleep)
    /\ WF_vars(HCExhausted)
    /\ WF_vars(HealthReturns)

\* performHealthCheck alone, the durations of its sleeps and requests followed
TimedHCInputs ==
    [range : {Str200to299}, timeout : 0 .. 2, retries : 0 .. MaxRetries,
     delay : {0, 2}, interval : {0, 1}]

CallHealthTimed == CallHealthWith(TimedHCInputs)
HCDelayTimed == HCDelayIn(TRUE)
HCAttemptTimed == HCAttemptIn(TRUE)
HCSleepTimed == HCSleepIn(TRUE)

NextTimed ==
    \/ CallHealthTimed
    \/ HCDelayTimed
    \/ HCAttemptTimed
    \/ HCSleepTimed
    \/ HCExhausted
    \/ HealthReturns

SpecTimed == InitHC /\ [][NextTimed]_vars

\* deployment runs one after another, each from any revision, with no
\* health check URL configured
InitIds == Init /\ fs = RootDir

PrepareAnyRevision == PrepareIn(Envs)
HealthcheckNoUrl == HealthcheckWith({FALSE})

NextIds ==
    \/ Tick
    \/ StartDeploy
    \/ EnvSetup
    \/ InstallDeps
    \/ Build
    \/ PrepareAnyRevision
    \/ CopyFiles
    \/ PreDeployCmds
    \/ SwitchActiveRelease
    \/ UpdAccess
    \/ UpdLstat
    \/ UpdUnlink
    \/ UpdSymlink
    \/ SwitchDone
    \/ PostDeployCmds
    \/ HealthcheckNoUrl
    \/ Stamp

SpecIds == InitIds /\ [][NextIds]_vars

\* deployment runs whose command lists hold commands of every exit code and
\* output, the commands each run starts being logged
InitCmds == Init /\ fs = RootDir

InstallDepsLogged == CmdStepIn("installDeps", FALSE, AllCmds, TRUE)
BuildLogged == CmdStepIn("build", FALSE, AllCmds, TRUE)
PreDeployCmdsLogged == CmdStepIn("preDeployCmds", TRUE, AllCmds, TRUE)
PostDeployCmdsLogged == CmdStepIn("postDeployCmds", TRUE, AllCmds, TRUE)

NextCmds ==
    \/ StartDeploy
    \/ EnvSetup
    \/ InstallDepsLogged
    \/ BuildLogged
    \/ PrepareReleaseDir
    \/ CopyFiles
    \/ PreDeployCmdsLogged
    \/ SwitchActiveRelease
    \/ UpdAccess
    \/ UpdLstat
    \/ UpdUnlink
    \/ UpdSymlink
    \/ SwitchDone
    \/ PostDeployCmdsLogged
    \/ HealthcheckStep
    \/ HCDelay
    \/ HCAttempt
    \/ HCSleep
    \/ HCExhausted
    \/ HealthcheckStepDone
    \/ Stamp

SpecCmds == InitCmds /\ [][NextCmds]_vars

\* executeCommands alone, called directly with every list
NextExec == CallExecuteCommands

SpecExec == InitCmds /\ [][NextExec]_vars

\* the release id of the prepare-release-dir step, computed from every clock
\* reading and environment
InitStamp ==
    /\ fs = RootDir
    /\ now = 0
    /\ pc = "idle"
    /\ call = "none"
    /\ stage = 0
    /\ started = <<>>
    /\ ctx = NoOutputs
    /\ t0 = 0
    /\ upd = NoUpd
    /\ hc = NoHC
    /\ res = NoRes
    /\ pre = fs
    /\ \E d \in Dates, env \in StampEnvs :
            hist = [NoHist EXCEPT !.gen = Some([t |-> d, env |-> env])]

GenerateReleaseId ==
    /\ pc = "idle"
    /\ call = "none"
    /\ call' = "releaseId"
    /\ LET id == releaseIdString(Val(hist.gen).t, Val(hist.gen).env)
       IN res' = [status |-> "ok", error |-> None,
                  outputs |-> Some([releaseId |-> id, releasePath |-> releasePathOf(id)])]
    /\ UNCHANGED <<fs, now, pc, stage, started, ctx, t0, upd, hc, pre, hist>>

NextStamp == GenerateReleaseId

SpecStamp == InitStamp /\ [][NextStamp]_vars

\* the junction functions getTarget, create and remove, called directly on
\* every layout
NextJunction ==
    \/ CallGetTarget
    \/ CallCreate
    \/ CallRemove

SpecJunction == Init /\ [][NextJunction]_vars

\* two deployments to the same root with no lock between them, interleaved at
\* their file system calls: the prepare, copy and switch steps of each. In
\* this specification pc, upd and res hold one value per deployment
Procs == {1, 2}

InitPar ==
    /\ fs \in { f \in InitLayouts : f.root = "dir" /\ f.writable }
    /\ now = 0
    /\ pc = [p \in Procs |-> "prepare"]
    /\ call = "deploy"
    /\ stage = 0
    /\ started = <<>>
    /\ ctx = NoOutputs
    /\ t0 = 0
    /\ upd = [p \in Procs |-> NoUpd]
    /\ hc = NoHC
    /\ res = [p \in Procs |-> NoRes]
    /\ pre = fs
    /\ hist = NoHist

ParFrame == UNCHANGED <<now, call, stage, started, ctx, t0, hc, pre, hist>>

\* deployment p moves on to position to
ParGoto(p, to) == pc' = [pc EXCEPT ![p] = to]

\* deployment p fails with an error
ParThrows(p, msg, fault) ==
    /\ ParGoto(p, "failed")
    /\ res' = [res EXCEPT ![p] = Reject(Err(0, msg))]
    /\ upd' = [upd EXCEPT ![p].fault = fault]

\* prepare-release-dir step of deployment p: fs.mkdir of its release directory
ParPrepare(p) ==
    /\ pc[p] = "prepare"
    /\ \E id \in RelIds :
        IF mkdirCode(fs, id) # "ok"
        THEN /\ ParThrows(p, "Failed to create release directory", FALSE)
             /\ UNCHANGED fs
        ELSE /\ fs' = createReleaseDirectory(fs, id)
             /\ upd' = [upd EXCEPT ![p].newPath = Some(releasePathOf(id))]
             /\ ParGoto(p, "copy")
             /\ UNCHANGED res
    /\ ParFrame

\* copy-files step of deployment p
ParCopy(p) ==
    /\ pc[p] = "copy"
    /\ fs' = copyFiles(fs, Val(upd[p].newPath))
    /\ ParGoto(p, "read")
    /\ UNCHANGED <<upd, res>>
    /\ ParFrame

\* switch step of deployment p: previousRelease = await junction.getTarget(currentPath)
ParGetTarget(p) ==
    /\ pc[p] = "read"
    /\ \E prev \in getTargetResults(fs) :
        upd' = [upd EXCEPT ![p].prev = prev, ![p].fs0 = Some(fs)]
    /\ ParGoto(p, "upd_access")
    /\ UNCHANGED <<fs, res>>
    /\ ParFrame

\* update of deployment p: fs.access
ParAccess(p) ==
    /\ pc[p] = "upd_access"
    /\ ParGoto(p, IF AccessOk(fs) THEN "upd_lstat" ELSE "upd_symlink")
    /\ UNCHANGED <<fs, upd, res>>
    /\ ParFrame

\* update of deployment p: isJunction
ParLstat(p) ==
    /\ pc[p] = "upd_lstat"
    /\ IF isJunction(fs)
       THEN /\ ParGoto(p, "upd_unlink")
            /\ UNCHANGED <<upd, res>>
       ELSE ParThrows(p, "exists but is not a junction", FALSE)
    /\ UNCHANGED fs
    /\ ParFrame

\* update of deployment p: remove
ParUnlink(p) ==
    /\ pc[p] = "upd_unlink"
    /\ \E io \in BOOLEAN :
        IF io /\ UnlinkCode(fs) = "ok"
        THEN /\ fs' = Unlink(fs)
             /\ ParGoto(p, "upd_symlink")
             /\ UNCHANGED <<upd, res>>
        ELSE IF io /\ UnlinkCode(fs) = "ENOENT"
        THEN /\ ParGoto(p, "upd_symlink")
             /\ UNCHANGED <<fs, upd, res>>
        ELSE /\ ParThrows(p, "Failed to remove junction", ~io)
             /\ UNCHANGED fs
    /\ ParFrame

\* update of deployment p: create
ParSymlink(p) ==
    /\ pc[p] = "upd_symlink"
    /\ \E io \in BOOLEAN :
        IF io /\ SymlinkCode(fs) = "ok"
        THEN /\ fs' = Symlink(fs, Val(upd[p].newPath))
             /\ ParGoto(p, "done")
             /\ res' = [res EXCEPT ![p] = [status |-> "ok", error |-> None, outputs |-> None]]
             /\ UNCHANGED upd
        ELSE /\ ParThrows(p, "Failed to create junction", ~io)
             /\ UNCHANGED fs
    /\ ParFrame

NextPar ==
    \E p \in Procs :
        \/ ParPrepare(p)
        \/ ParCopy(p)
        \/ ParGetTarget(p)
        \/ ParAccess(p)
        \/ ParLstat(p)
        \/ ParUnlink(p)
        \/ ParSymlink(p)

SpecPar == InitPar /\ [][NextPar]_vars

\* the directory functions alone, called directly on every layout
NextDirs ==
    \/ CallCreateReleaseDirectory
    \/ CallEnsureDeployRoot

SpecDirs == Init /\ [][NextDirs]_vars

\* ------------------------------------------------------------- properties
\* junction update was called (by the switch step or directly) and has not
\* been superseded by a later call
InUpdate == upd.newPath # None /\ upd.fs0 # None
UpdateFrom(kinds) == InUpdate /\ Val(upd.fs0).current.kind \in kinds
UpdateThrew ==
    /\ pc = "idle"
    /\ res.status = "error"
    /\ Val(res.error).msg \in {"exists but is not a junction",
                               "Failed to remove junction", "Failed to create junction"}
NewRel == Val(upd.newPath).rel

\* C1: when `current` is a plain file or a plain directory, update fails with
\* the "is not a junction" error, never reaches the remove or the create, and
\* leaves the entry and its contents as they were when it was called.
C1_UnsafePointerUntouched ==
    UpdateFrom({"file", "dir"}) =>
        /\ fs = Val(upd.fs0)
        /\ pc \in {"upd_access", "upd_lstat", "idle"}
        /\ pc = "idle" =>
            /\ res.status = "error"
            /\ Val(res.error).msg = "exists but is not a junction"

C1_Witness ==
    /\ UpdateFrom({"dir"})
    /\ pc = "idle"
    /\ res.status = "error"
    /\ fs.curFiles = ForeignFiles

\* C2: no step of any call removes a release directory or a file of one.
C2_NoReleaseDeleted ==
    [][/\ fs.releases \subseteq fs'.releases
       /\ \A r \in fs.releases : fs.files[r] \subseteq fs'.files[r]]_vars

C2_Witness ==
    /\ UpdateFrom({"link"})
    /\ pc = "upd_done"
    /\ Val(Val(upd.fs0).current.target) \in fs.releases
    /\ Val(Val(upd.fs0).current.target) # NewRel
    /\ fs.files[Val(Val(upd.fs0).current.target)] = SrcFiles

\* C3: while update replaces a redirect to release A by one to release B, and
\* after it ended, `current` is a redirect to A or to B.
C3_AtomicSwitch ==
    (UpdateFrom({"link"}) /\ Val(Val(upd.fs0).current.target) \in Val(upd.fs0).releases) =>
        /\ fs.current.kind = "link"
        /\ Val(fs.current.target) \in {Val(Val(upd.fs0).current.target), NewRel}

\* C4: called on a redirect entry, dangling or not, and absent I/O errors,
\* update does not throw and returns with `current` a redirect to newTarget.
C4_RedirectAlwaysReplaced ==
    (UpdateFrom({"link"}) /\ ~upd.fault) =>
        /\ ~UpdateThrew
        /\ pc \in {"upd_access", "upd_lstat", "upd_unlink", "upd_symlink", "upd_done"}
           \/ fs.current = LinkTo(NewRel)

\* C5: when update returns, `current` is a redirect entry and its target, read
\* back through readlink and the trailing-separator strip, is newTarget.
C5_TargetReadBack ==
    (InUpdate /\ pc = "upd_done") =>
        /\ fs.current = LinkTo(NewRel)
        /\ getTargetResults(fs) = {upd.newPath}

C5_Witness ==
    /\ UpdateFrom({"link"})
    /\ pc = "upd_done"
    /\ Val(Val(upd.fs0).current.target) # NewRel
    /\ fs.current = LinkTo(NewRel)

\* `current` is absent, or a redirect to an existing release directory
GoodPointer(f) ==
    \/ f.current.kind = "absent"
    \/ f.current.kind = "link" /\ Val(f.current.target) \in f.releases

DeployEnded == call = "deploy" /\ pc = "idle"

\* C6: a deployment run that starts with `current` absent or a redirect to an
\* existing release ends, ok or failed, with `current` absent or a redirect to
\* an existing release directory; after a successful run, to its releasePath.
C6_LayoutInvariant ==
    (DeployEnded /\ GoodPointer(pre)) =>
        /\ GoodPointer(fs)
        /\ res.status = "ok" =>
            /\ fs.current.kind = "link"
            /\ Some(releasePathOf(Val(fs.current.target))) = Val(res.outputs).releasePath

C6_Witness ==
    /\ DeployEnded
    /\ res.status = "ok"
    /\ pre.current.kind = "link"
    /\ pre.current # fs.current

PreSwitchSteps ==
    {"envSetup", "installDeps", "build", "prepareReleaseDir", "copyFiles", "preDeployCmds"}

\* C7: a run that fails in environment setup, install, build, prepare release,
\* file copy or pre-deploy commands leaves `current` as it was at its start.
C7_FailureBeforeSwitch ==
    (DeployEnded /\ res.status = "error" /\ Steps[Val(res.error).at] \in PreSwitchSteps) =>
        /\ fs.current = pre.current
        /\ fs.curFiles = pre.curFiles

C7_Witness ==
    /\ DeployEnded
    /\ res.status = "error"
    /\ Steps[Val(res.error).at] = "preDeployCmds"
    /\ pre.current.kind = "link"
    /\ Val(ctx.releaseId) # Val(pre.current.target)

\* C8: steps are started one at a time in list order; when step k throws, the
\* steps started are exactly 1..k, the run rejects with the error of step k,
\* and no outputs record is returned.
C8_FailStop ==
    /\ call = "deploy" => started = [i \in 1 .. Len(started) |-> i]
    /\ (call = "deploy" /\ pc = "step") => Len(started) = stage - 1
    /\ (DeployEnded /\ res.status = "error") =>
        /\ Val(res.error).at = Len(started)
        /\ Val(res.error).at = stage
        /\ res.outputs = None
    /\ (DeployEnded /\ res.status = "ok") =>
        /\ Len(started) = Len(Steps)
        /\ Val(res.outputs).deploymentTime # None
        /\ Val(res.outputs).elapsed # None

C8_Witness ==
    /\ DeployEnded
    /\ res.status = "error"
    /\ Val(res.error).at = 3
    /\ Len(started) = 3

\* the health check of this run made all its attempts without success
HealthExhausted ==
    /\ hc.result # None
    /\ ~Val(hc.result).threw
    /\ ~Val(hc.result).success

\* C9: a run whose health check is exhausted fails with "Health check failed",
\* `current` still references the new release, and the new release and every
\* release that existed when the run began are still there.
C9_NoRollback ==
    (DeployEnded /\ HealthExhausted) =>
        /\ res.status = "error"
        /\ Val(res.error).msg = "Health check failed"
        /\ fs.current = LinkTo(Val(ctx.releaseId))
        /\ Val(ctx.releaseId) \in fs.releases
        /\ pre.releases \subseteq fs.releases
        /\ upd.prev # None => Val(upd.prev).rel \in fs.releases

C9_Witness ==
    /\ DeployEnded
    /\ HealthExhausted
    /\ Val(hc.result).attempts = 2
    /\ upd.prev # None
    /\ Val(upd.prev).rel # Val(ctx.releaseId)

\* the last request got a response whose status is within the parsed range
InRangeResponseSeen ==
    /\ hc.in # None
    /\ hc.lastStatusCode # None
    /\ Val(hc.lastStatusCode) \in Statuses
    /\ parseCodeRange(Val(hc.in).range).ok
    /\ Val(hc.lastStatusCode) >= parseCodeRange(Val(hc.in).range).min
    /\ Val(hc.lastStatusCode) <= parseCodeRange(Val(hc.in).range).max

\* C10: once an attempt k receives a response with min <= status <= max,
\* performHealthCheck has returned success=true with that status and
\* attempts=k; k requests and k-1 interval sleeps were made, none after it.
C10_StopsAtFirstSuccess ==
    InRangeResponseSeen =>
        /\ pc \in {"hc_done", "idle"}
        /\ hc.result = Some(HCResult(FALSE, TRUE, hc.lastStatusCode, hc.attempt, None))
        /\ hc.requests = hc.attempt
        /\ hc.sleeps = hc.attempt - 1

C10_Witness ==
    /\ InRangeResponseSeen
    /\ pc = "idle"
    /\ hc.attempt = 2
    /\ Val(hc.lastStatusCode) = 300

\* performHealthCheck has produced its result (a returned value or a throw)
HealthEnded == hc.in # None /\ hc.result # None

\* no request made so far got a response with a status inside the range: each
\* one was a transport error, a timeout, or an out-of-range response
EveryAttemptFailed ==
    /\ hc.in # None
    /\ ~hc.okSeen
    /\ hc.lastResp # None => parseCodeRange(Val(hc.in).range).ok

\* C11: when every attempt is a transport failure or an out-of-range response,
\* performHealthCheck makes exactly `retries` requests and returns
\* success=false with attempts=retries.
C11_AllFailuresExhaust ==
    (HealthEnded /\ EveryAttemptFailed) =>
        /\ hc.requests = Val(hc.in).retries
        /\ ~Val(hc.result).threw
        /\ ~Val(hc.result).success
        /\ Val(hc.result).attempts = Val(hc.in).retries

\* the range string given to this health check does not parse into two integers
MalformedRange == hc.in # None /\ ~parseCodeRange(Val(hc.in).range).ok

\* C12: with a malformed range string performHealthCheck makes no request at
\* all and ends by raising the invalid-range error, whatever the endpoint does.
C12_MalformedRangeFailsFast ==
    MalformedRange =>
        /\ hc.requests = 0
        /\ hc.result # None => Val(hc.result).threw

\* the steps that run user commands
CommandSteps == {"installDeps", "build", "preDeployCmds", "postDeployCmds"}

\* C13: a deployment run whose health check range string is malformed creates
\* no directory, starts no command step and leaves `current` alone, and it
\* ends with the invalid-range error.
C13_MalformedRangeBeforeIO ==
    (call = "deploy" /\ MalformedRange) =>
        /\ fs = pre
        /\ \A i \in 1 .. Len(started) : Steps[started[i]] \notin CommandSteps
        /\ DeployEnded =>
            /\ res.status = "error"
            /\ Val(res.error).msg = "Invalid health check code range"

\* performHealthCheck returned a HealthCheckResult (it did not throw)
HealthResult == HealthEnded /\ ~Val(hc.result).threw

\* C14: the statusCode of a HealthCheckResult is the status of the latest
\* response actually received, and it is absent when no attempt got a response.
C14_StatusCodeIsLastResponse ==
    HealthResult => Val(hc.result).statusCode = hc.lastResp

\* C15: in every HealthCheckResult, whatever integer retries was passed,
\* attempts is the number of requests made and 1 <= attempts <= retries.
C15_AttemptsCountsRequests ==
    HealthResult =>
        /\ Val(hc.result).attempts = hc.requests
        /\ 1 <= Val(hc.result).attempts
        /\ Val(hc.result).attempts <= Val(hc.in).retries

\* the reason the latest request failed, as the result's error reports it
ReasonOf(o) ==
    IF o.kind = "timeout" THEN "Request timed out"
    ELSE IF o.kind = "error" THEN o.msg
    ELSE "outside expected range"

\* C16: a HealthCheckResult has an error exactly when success is false, and
\* then, if an attempt was made, it is the reason the latest attempt failed: the
\* timed-out message, the transport error's message, or the
\* outside-expected-range message.
C16_ErrorIffFailure ==
    HealthResult =>
        /\ Val(hc.result).error # None <=> ~Val(hc.result).success
        /\ (~Val(hc.result).success /\ hc.last # None) =>
            Val(hc.result).error = Some(ReasonOf(Val(hc.last)))

\* the current deployment run has allocated its id, and the deployment run
\* right before it had allocated one too
SecondRun ==
    /\ call = "deploy"
    /\ ctx.releaseId # None
    /\ hist.gen # None
    /\ hist.prior # None

\* the two runs made their ids in the same second from the same 7-character revision
SameSecondAndRev7 ==
    /\ Val(hist.gen).t = Val(Val(hist.prior).gen).t
    /\ getShortSha(Val(hist.gen).env) = getShortSha(Val(Val(hist.prior).gen).env)

SwitchedThisRun == call = "deploy" /\ ctx.currentJunction # None

\* the release path `current` redirects to in file system f, if it is a redirect
TargetBefore(f) ==
    IF f.root = "dir" /\ f.current.kind = "link"
    THEN Some(releasePathOf(Val(f.current.target)))
    ELSE None

\* C18: once the switch step has completed, previousRelease is the target
\* `current` had when the swap began: undefined when `current` did not exist
\* at the start of the run, and the releasePath of the deployment run right
\* before this one when that run had switched; reading it (the first half of
\* the switch step) leaves the file system as it is.
C18_PreviousRelease ==
    /\ [](SwitchedThisRun =>
            /\ ctx.previousRelease = TargetBefore(Val(upd.fs0))
            /\ pre.current.kind = "absent" => ctx.previousRelease = None
            /\ (hist.prior # None /\ Val(hist.prior).switched) =>
                ctx.previousRelease = Some(releasePathOf(Val(hist.prior).id)))
    /\ [][AtStep("switchActiveRelease") => fs' = fs]_vars

C18_Witness ==
    /\ SwitchedThisRun
    /\ hist.prior # None
    /\ Val(hist.prior).switched
    /\ Val(hist.prior).id # Val(ctx.releaseId)
    /\ ctx.previousRelease = Some(releasePathOf(Val(hist.prior).id))
    /\ res.status = "ok"

\* the file-copy stage writes into the release directory of the current run
CopyWrites ==
    /\ AtStep("copyFiles")
    /\ ctx.releasePath # None
    /\ fs'.files # fs.files \/ fs' = copyFiles(fs, Val(ctx.releasePath))
    /\ pc' = "step"

\* C19: the file-copy stage never writes into a release directory that was
\* already there, populated, when the run began, and never into the directory
\* `current` references at that moment.
C19_ReleasesImmutable ==
    [][CopyWrites =>
        /\ ~(Val(ctx.releaseId) \in pre.releases /\ pre.files[Val(ctx.releaseId)] # {})
        /\ fs.current # LinkTo(Val(ctx.releaseId))]_vars

\* the last call was createReleaseDirectory with this id, and it returned
CreatedBefore(id) ==
    /\ call = "create"
    /\ res.status = "ok"
    /\ res.outputs = Some(releasePathOf(id))

\* C20: a call of createReleaseDirectory that returns, returns
\* root/releases/{id} with that directory in place; a second call with the
\* same id right after it returns the same path, does not fail, and leaves
\* the file system, the content of the directory included, as it was.
C20_CreateIdempotent ==
    [][\A id \in AllRelIds :
        /\ (CreateCall(id) /\ res'.status = "ok") =>
            /\ res'.outputs = Some(releasePathOf(id))
            /\ id \in fs'.releases
        /\ (CreateCall(id) /\ CreatedBefore(id)) =>
            /\ res'.status = "ok"
            /\ res'.outputs = res.outputs
            /\ fs' = fs]_vars

C20_Witness ==
    /\ call = "create"
    /\ res.status = "ok"
    /\ hist.prior # None
    /\ Val(hist.prior).id = Val(res.outputs).rel
    /\ fs.files[Val(hist.prior).id] = SrcFiles
    /\ fs = pre

\* C21: called on a root that does not exist, ensureDeployRoot returns with
\* root and root/releases in place as directories and no `.write-test` file;
\* a call right after a call that returned also returns, and it leaves the
\* whole file system (root, releases, `current`) as it was.
C21_EnsureRootIdempotent ==
    [][CallEnsureDeployRoot =>
        /\ fs.root = "absent" =>
            /\ res'.status = "ok"
            /\ fs'.root = "dir"
            /\ fs'.releasesDir
            /\ ~fs'.probe
        /\ (call = "ensure" /\ res.status = "ok") =>
            /\ res'.status = "ok"
            /\ fs' = fs]_vars

C21_Witness ==
    /\ call = "ensure"
    /\ res.status = "ok"
    /\ hist.before # None
    /\ Val(hist.before).root = "absent"
    /\ fs = pre
    /\ fs.root = "dir"
    /\ fs.releasesDir

\* C22: called on a root that exists but is not a directory, ensureDeployRoot
\* throws the is-not-a-directory error and leaves the file system as it was:
\* no probe file, no releases directory, nothing removed.
C22_RootNotADirectory ==
    [][(CallEnsureDeployRoot /\ fs.root = "file") =>
        /\ res'.status = "error"
        /\ Val(res'.error).msg = "not a directory"
        /\ fs' = fs
        /\ ~fs'.probe
        /\ ~fs'.releasesDir]_vars

C22_Witness ==
    /\ call = "ensure"
    /\ res.status = "error"
    /\ Val(res.error).msg = "not a directory"
    /\ pre.root = "file"
    /\ fs = pre

\* a deployment run ended with the error of a missing dist dir
DistDirMissing ==
    /\ DeployEnded
    /\ res.status = "error"
    /\ Val(res.error).msg = "dist_dir does not exist"

\* C23: a deployment whose dist dir does not exist fails before mutation: when
\* it fails, no new release directory has been created under root/releases and
\* no install or build command has been run.
C23_DistDirFailsBeforeMutation ==
    DistDirMissing => (fs.releases = pre.releases /\ hist.log = <<>>)

\* the run failed in step number s
FailedAt(s) == res.status = "error" /\ Val(res.error).at = s

NoHealthOutputs(o) ==
    /\ o.healthcheckStatus = None
    /\ o.healthcheckCode = None
    /\ o.healthcheckAttempts = None

\* C24: an optional stage whose command list is empty or absent, or whose URL
\* is absent, is skipped: it starts no command and issues no request, it does
\* not fail the run, and after a skipped health check the outputs carry no
\* healthcheckStatus, healthcheckCode or healthcheckAttempts.
C24_EmptyStagesSkipped ==
    call = "deploy" =>
        /\ \A i \in 1 .. Len(hist.lens) :
            hist.lens[i].n = 0 =>
                /\ \A j \in 1 .. Len(hist.log) : hist.log[j].step # hist.lens[i].step
                /\ ~FailedAt(hist.lens[i].step)
        /\ hist.url = Some(FALSE) =>
                /\ hc.in = None
                /\ hc.requests = 0
                /\ \A s \in 1 .. Len(Steps) : Steps[s] = "healthcheck" => ~FailedAt(s)
                /\ NoHealthOutputs(ctx)
                /\ res.status = "ok" => NoHealthOutputs(Val(res.outputs))

C24_Witness ==
    /\ DeployEnded
    /\ res.status = "ok"
    /\ hist.url = Some(FALSE)
    /\ Len(hist.lens) = 4
    /\ \A i \in 1 .. 4 : hist.lens[i].n = 0
    /\ hist.log = <<>>

\* the 1-based index of the first command of cmds that exits with a failure, 0 if none
FirstFailing(cmds) ==
    IF \A i \in 1 .. Len(cmds) : cmds[i].code = 0 THEN 0
    ELSE CHOOSE i \in 1 .. Len(cmds) :
            /\ cmds[i].code # 0
            /\ \A j \in 1 .. (i - 1) : cmds[j].code = 0

\* C25: executeCommands starts the commands one at a time in array order and
\* stops at the first failure: when command i fails exactly the commands 1..i
\* were started and the call rejects with an error that embeds the exit code
\* and the captured output of command i; when no command fails all were
\* started and the call resolves; for an empty list nothing is started and
\* the call resolves.
C25_StopsAtFirstFailure ==
    (call = "commands" /\ hist.cmds # None) =>
        LET cmds == Val(hist.cmds)
            f == FirstFailing(cmds)
        IN /\ \A j \in 1 .. Len(hist.log) : hist.log[j].idx = j
           /\ Len(hist.log) = IF f = 0 THEN Len(cmds) ELSE f
           /\ f = 0 => res.status = "ok"
           /\ f # 0 =>
                /\ res.status = "error"
                /\ Val(res.error).code = Some(cmds[f].code)
                /\ Val(res.error).output # None
                /\ (cmds[f].stderr # "" \/ cmds[f].stdout # "") =>
                       Val(Val(res.error).output) \in {cmds[f].stderr, cmds[f].stdout} \ {""}
           /\ cmds = <<>> => (hist.log = <<>> /\ res.status = "ok")

C25_Witness ==
    /\ call = "commands"
    /\ hist.cmds # None
    /\ Len(Val(hist.cmds)) = 2
    /\ Val(hist.cmds)[1].code # 0
    /\ Len(hist.log) = 1
    /\ res.status = "error"

\* the switch step of a deployment run is about to read the previous release
ReadsPrevious == AtStep("switchActiveRelease") /\ ctx.releasePath # None

\* C26: reading the previous release never blocks a deployment and never
\* modifies the pointer: the read always completes without an error and
\* leaves the file system as it is, and what it returns is the target of
\* `current` without trailing separators when `current` is a redirect, and
\* undefined when `current` is absent or exists but is not a redirect.
C26_ReadPreviousRelease ==
    /\ []((call = "deploy" /\ upd.fs0 # None) =>
            upd.prev = IF Val(upd.fs0).current.kind = "link"
                       THEN Some([rel |-> Val(Val(upd.fs0).current.target), trail |-> 0])
                       ELSE None)
    /\ [](ReadsPrevious => ENABLED SwitchActiveRelease)
    /\ [][(ReadsPrevious /\ started' # started) =>
                (fs' = fs /\ res' = res /\ pc' = "upd_access")]_vars

C26_Witness ==
    /\ call = "deploy"
    /\ pc = "upd_access"
    /\ upd.fs0 # None
    /\ Val(upd.fs0).current.kind = "file"
    /\ upd.prev = None
    /\ fs = Val(upd.fs0)

\* the health check of this deployment run was made and returned a result
HealthCheckRan ==
    /\ DeployEnded
    /\ hist.url = Some(TRUE)
    /\ hc.result # None
    /\ ~Val(hc.result).threw

\* C27: the healthcheck_status output reports the outcome of the health check
\* stage: a run whose health check passed has published `passed` and a run
\* whose health check ran and failed has published `failed`.
C27_StatusPublished ==
    HealthCheckRan =>
        /\ Published # None
        /\ Val(Published).healthcheck_status =
                Some(IF Val(hc.result).success THEN "passed" ELSE "failed")

\* the number the digits s[from..to] spell, s[from..to] being all digits
NumberAt(s, from, to) == LeadingDigits(SubSeq(s, from, to), 0)
AllDigits(s, from, to) == \A i \in from .. to : IsDigit(s[i])

\* the first non-empty of GITHUB_SHA, GITEA_SHA, CI_COMMIT_SHA, else `unknown`
FirstSha(env) ==
    LET cands == <<env.GITHUB_SHA, env.GITEA_SHA, env.CI_COMMIT_SHA>>
        set == { i \in 1 .. 3 : cands[i] # <<>> }
    IN IF set = {} THEN Unknown
       ELSE cands[CHOOSE i \in set : \A j \in set : i <= j]

\* C28: the release id is `{timestamp}-{rev}`: the first 15 characters are
\* the local time as YYYYMMDD-HHMMSS, the 16th is `-`, and the rest is the
\* first 7 characters of the first non-empty of GITHUB_SHA, GITEA_SHA,
\* CI_COMMIT_SHA, or `unknown` when none is set; the release path is
\* root/releases/{id}.
C28_ReleaseIdFormat ==
    call = "releaseId" =>
        LET d == Val(hist.gen).t
            env == Val(hist.gen).env
            id == Val(res.outputs).releaseId
            sha == FirstSha(env)
        IN /\ Len(id) >= 16
           /\ AllDigits(id, 1, 8) /\ id[9] = "-" /\ AllDigits(id, 10, 15)
           /\ NumberAt(id, 1, 4) = d.year
           /\ NumberAt(id, 5, 6) = d.month + 1
           /\ NumberAt(id, 7, 8) = d.date
           /\ NumberAt(id, 10, 11) = d.hours
           /\ NumberAt(id, 12, 13) = d.minutes
           /\ NumberAt(id, 14, 15) = d.seconds
           /\ id[16] = "-"
           /\ SubSeq(id, 17, Len(id)) = [i \in 1 .. Min2(7, Len(sha)) |-> sha[i]]
           /\ Val(res.outputs).releasePath = [rel |-> id, trail |-> 0]

C28_Witness ==
    /\ call = "releaseId"
    /\ Val(hist.gen).t.month = 0
    /\ Val(hist.gen).t.seconds = 0
    /\ Val(hist.gen).env.GITHUB_SHA = <<>>
    /\ Val(hist.gen).env.GITEA_SHA = ShaGitea
    /\ SubSeq(Val(res.outputs).releaseId, 5, 6) = <<"0", "1">>
    /\ Len(Val(res.outputs).releaseId) = 23

\* the number of commands step number s has started in this run
CountLog(s) == Cardinality({ j \in 1 .. Len(hist.log) : hist.log[j].step = s })

\* the named step has returned
Returned(name) == \E s \in 1 .. Len(Steps) : Steps[s] = name /\ stage > s

\* the named command step was given a list, started every command of it and returned
RanAll(name) ==
    /\ Returned(name)
    /\ \E i \in 1 .. Len(hist.lens) :
        /\ Steps[hist.lens[i].step] = name
        /\ CountLog(hist.lens[i].step) = hist.lens[i].n

\* the release directory of this run exists and holds the copied files
ReleaseReady ==
    /\ ctx.releasePath # None
    /\ Val(ctx.releasePath).rel \in fs.releases
    /\ SrcFiles \subseteq fs.files[Val(ctx.releasePath).rel]
    /\ Returned("prepareReleaseDir")
    /\ Returned("copyFiles")

\* C29: in one deployment run `current` changes only in the switch step, after
\* the release directory was created, the copy finished and every pre-deploy
\* command succeeded; a post-deploy command is started only after the switch
\* succeeded, in the new release directory; the health check begins only
\* after every post-deploy command succeeded; and a step begins only when the
\* one before it has returned, so that no two stages overlap.
C29_StageOrder ==
    /\ [][(call = "deploy" /\ call' = "deploy" /\ fs'.current # fs.current) =>
            /\ Steps[stage] = "switchActiveRelease"
            /\ ReleaseReady
            /\ RanAll("preDeployCmds")]_vars
    /\ [](call = "deploy" =>
            /\ \A j \in 1 .. Len(hist.log) :
                Steps[hist.log[j].step] = "postDeployCmds" =>
                    /\ Returned("switchActiveRelease")
                    /\ ctx.currentJunction # None
                    /\ fs.current = LinkTo(Val(ctx.releasePath).rel)
                    /\ hist.log[j].cwd = ctx.releasePath
            /\ (hist.url # None \/ hc.in # None) =>
                    /\ RanAll("postDeployCmds")
                    /\ Steps[Len(started)] = "healthcheck"
            /\ started = [i \in 1 .. Len(started) |-> i]
            /\ pc = "step" => stage = Len(started) + 1
            /\ pc \notin {"step", "idle"} =>
                    /\ stage = Len(started)
                    /\ Steps[stage] \in {"switchActiveRelease", "healthcheck"})
    /\ [][(call = "deploy" /\ Len(started') > Len(started)) =>
            (pc = "step" /\ started' = Append(started, stage))]_vars

C29_Witness ==
    /\ DeployEnded
    /\ res.status = "ok"
    /\ hc.requests > 0
    /\ \E j \in 1 .. Len(hist.log) :
        /\ Steps[hist.log[j].step] = "postDeployCmds"
        /\ hist.log[j].idx = 2
    /\ \E j \in 1 .. Len(hist.log) :
        /\ Steps[hist.log[j].step] = "preDeployCmds"
        /\ hist.log[j].idx = 2
    /\ fs.current = LinkTo(Val(ctx.releasePath).rel)

\* C30: performHealthCheck reports success only if some attempt received an
\* HTTP response whose status is within the accepted range: an attempt that
\* failed at transport level, whatever its message and whatever the range,
\* is never counted as a success.
C30_SuccessNeedsResponse ==
    (HealthResult /\ Val(hc.result).success) =>
        /\ hc.okSeen
        /\ Val(hc.last).kind = "response"

\* the latest request got a response whose status is inside the range
LastInRange ==
    /\ hc.last # None
    /\ Val(hc.last).kind = "response"
    /\ isStatusCodeInRange(Val(hc.last).status, Val(hc.in).range).inRange

\* C31: the initial delay is taken exactly once, before the first request, and
\* only when delay > 0; an interval sleep is taken only after a failed attempt
\* that is not the last allowed one, so that when performHealthCheck ends the
\* number of interval sleeps is the number of attempts made minus one (none
\* when no attempt was made) and no sleep follows a success or the last attempt.
C31_SleepSchedule ==
    /\ [](hc.in # None =>
            /\ hc.delays = IF pc # "hc_delay" /\ Val(hc.in).delay > 0 THEN 1 ELSE 0
            /\ hc.sleeps <= hc.requests
            /\ hc.result # None =>
                    hc.sleeps = IF hc.requests = 0 THEN 0 ELSE hc.requests - 1)
    /\ [][hc'.delays > hc.delays => (hc.requests = 0 /\ hc.sleeps = 0)]_vars
    /\ [][(hc.in # None /\ hc'.sleeps > hc.sleeps) =>
            /\ hc.result = None
            /\ hc'.result = None
            /\ ~LastInRange
            /\ hc.requests = hc.attempt
            /\ hc.attempt < Val(hc.in).retries]_vars

C31_Witness ==
    /\ HealthEnded
    /\ hc.delays = 1
    /\ hc.requests = 2
    /\ hc.sleeps = 1
    /\ Val(hc.result).success

\* initialDelay + maxAttempts*timeout + (maxAttempts-1)*interval
WorstCase(in) == in.delay + in.retries * in.timeout + (in.retries - 1) * in.interval

\* C32: with whole-second durations and each request bounded by its timeout,
\* the time spent in performHealthCheck never exceeds
\* initialDelay + maxAttempts*timeout + (maxAttempts-1)*interval, for
\* non-negative delay, timeout and interval and maxAttempts >= 1.
C32_WorstCaseDuration ==
    (hc.in # None /\ Val(hc.in).retries >= 1) => hc.spent <= WorstCase(Val(hc.in))

C32_Witness ==
    /\ HealthEnded
    /\ Val(hc.in).retries = 2
    /\ Val(hc.in).timeout = 2
    /\ Val(hc.in).interval = 1
    /\ Val(hc.in).delay = 2
    /\ hc.spent = WorstCase(Val(hc.in))
    /\ hc.spent = 7

\* performHealthCheck is running
HealthRunning == call = "health" /\ pc \in {"hc_delay", "hc_loop", "hc_sleep"}

\* the latest request never answered and was aborted by its own deadline
LastTimedOut == hc.last # None /\ Val(hc.last).kind = "timeout"

\* C33: performHealthCheck always terminates: whatever the endpoint does,
\* requests that never answer included, a result is eventually returned (or
\* the invalid-range error thrown); an attempt that its own deadline aborted
\* ends only that attempt, the loop going on to the interval sleep, the next
\* attempt or its end.
C33_Terminates ==
    /\ HealthRunning ~> (call = "health" /\ pc = "hc_done")
    /\ (call = "health" /\ pc = "hc_done") ~> (call = "health" /\ pc = "idle")
    /\ [][(HealthRunning /\ hc'.requests > hc.requests /\ hc'.last # None
                /\ Val(hc'.last).kind = "timeout") =>
            (pc' \in {"hc_sleep", "hc_loop"} /\ hc'.result = None)]_vars

C33_Witness ==
    /\ HealthEnded
    /\ LastTimedOut
    /\ hc.requests = 2
    /\ hc.sleeps = 1
    /\ ~Val(hc.result).success

\* C34: getTarget returns undefined when the pointer is absent, and raises an
\* error, instead of returning undefined, when reading the pointer fails for
\* an I/O reason other than absence.
C34_GetTargetRaisesOnIOFailure ==
    (call = "getTarget" /\ hist.io # None) =>
        /\ Val(hist.io) = "ENOENT" => (res.status = "ok" /\ res.outputs = None)
        /\ Val(hist.io) \in {"EIO", "EACCES"} => res.status = "error"

\* C36: junction create never replaces an existing entry: when a redirect, a
\* file or a directory is at the junction path the call fails and the entry
\* is unchanged, and the call succeeds only when the path is absent, the
\* path then being a redirect to the target.
C36_CreateNeverReplaces ==
    call = "junctionCreate" =>
        /\ pre.current.kind # "absent" => (res.status = "error" /\ fs = pre)
        /\ res.status = "error" => fs = pre
        /\ res.status = "ok" =>
                /\ pre.root = "dir"
                /\ pre.current.kind = "absent"
                /\ fs.current = LinkTo(Val(upd.newPath).rel)

C36_Witness ==
    /\ call = "junctionCreate"
    /\ pre.current.kind = "link"
    /\ Val(hist.io) = "EEXIST"
    /\ Val(pre.current.target) # Val(upd.newPath).rel
    /\ res.status = "error"
    /\ fs.current = pre.current

StampFields == {"deploymentTime", "elapsed"}

\* C35: deploymentTime and elapsed are stamped only after every stage has
\* completed, and every output field an earlier stage has written (releaseId,
\* releasePath, previousRelease, currentJunction, the health fields) is
\* carried unchanged into the returned result: within a run no later step
\* overwrites or drops a field that is set.
C35_OutputsCarried ==
    /\ [](call = "deploy" =>
            /\ (\E f \in StampFields : ctx[f] # None) =>
                    /\ pc = "idle"
                    /\ res.status = "ok"
                    /\ Len(started) = Len(Steps)
                    /\ stage > Len(Steps)
            /\ (pc = "idle" /\ res.status = "ok") =>
                    /\ res.outputs = Some(ctx)
                    /\ ctx.releaseId = Some(releaseId(Val(hist.gen).t, Val(hist.gen).env))
                    /\ ctx.releasePath = Some(releasePathOf(Val(ctx.releaseId)))
                    /\ ctx.previousRelease = TargetBefore(Val(upd.fs0))
                    /\ ctx.currentJunction # None
                    /\ ctx.deploymentTime # None
                    /\ ctx.elapsed = Some(Val(ctx.deploymentTime) - t0)
                    /\ hc.result # None =>
                            /\ ctx.healthcheckStatus = Some("passed")
                            /\ ctx.healthcheckCode = Val(hc.result).statusCode
                            /\ ctx.healthcheckAttempts = Some(Val(hc.result).attempts))
    /\ [][(call = "deploy" /\ pc # "idle") =>
            \A f \in DOMAIN ctx : ctx[f] # None => ctx'[f] = ctx[f]]_vars

C35_Witness ==
    /\ DeployEnded
    /\ res.status = "ok"
    /\ Val(res.outputs).previousRelease # None
    /\ Val(res.outputs).healthcheckStatus = Some("passed")
    /\ Val(res.outputs).releaseId # None
    /\ Val(res.outputs).elapsed = Some(1)

\* C37: when two deployments to the same root interleave at their file
\* system steps, `current`, if it began absent or as a redirect to a release
\* directory, is in every state absent or a redirect to a directory under
\* root/releases; no step turns it into a plain file or directory; and no
\* release directory is ever deleted.
C37_InterleavedSwitchSafe ==
    /\ [](GoodPointer(pre) => GoodPointer(fs))
    /\ [][fs'.current.kind \in {"file", "dir"} => fs'.current = fs.current]_vars
    /\ [][fs.releases \subseteq fs'.releases]_vars

C37_Witness ==
    /\ pc[1] = "done"
    /\ pc[2] = "failed"
    /\ ~upd[2].fault
    /\ Val(res[2].error).msg = "Failed to create junction"
    /\ upd[1].newPath # upd[2].newPath
    /\ upd[1].fs0 = upd[2].fs0
    /\ pre.current.kind = "link"
    /\ fs.current = LinkTo(Val(upd[1].newPath).rel)

\* ------------------------------------------------------------- copy files
\* src/action/utils/files: the source tree is the set of its entries that are
\* not directories, each with its path from the repository (a sequence of
\* names) and its kind, a regular file or a symbolic link to a file; the
\* directories are the proper prefixes of those paths
MaxDepth == 2
MaxEntries == 2
Names == {"src", "dist", ".git"}

DEFAULT_EXCLUDE_PATTERNS ==
    {".git", ".gitignore", ".gitattributes", "node_modules", "__pycache__",
     ".venv", "venv", ".env", ".pytest_cache", ".mypy_cache", ".tox", "dist",
     "build", "target", ".idea", ".vscode", ".vs", ".DS_Store", "Thumbs.db"}

Paths == UNION { [1 .. n -> Names] : n \in 1 .. MaxDepth }

IsPrefix(p, q) == Len(p) <= Len(q) /\ SubSeq(q, 1, Len(p)) = p

Entries == [path : Paths, kind : {"file", "link"}]

\* the trees of at most n entries, none below another
RECURSIVE SetsUpTo(_)
SetsUpTo(n) ==
    IF n = 0 THEN {{}}
    ELSE LET smaller == SetsUpTo(n - 1)
         IN smaller \cup { t \cup {e} : t \in smaller, e \in Entries }

Trees(n) ==
    { t \in SetsUpTo(n) :
        \A a, b \in t : a # b => ~IsPrefix(a.path, b.path) }

\* dist_dir input: absent, or a path from the repository
DistDirInputs == {None, Some(<<"dist">>), Some(<<"src">>)}

DirsOf(tree) ==
    UNION { { SubSeq(e.path, 1, k) : k \in 0 .. Len(e.path) - 1 } : e \in tree }

\* fs.stat of a path of the tree
statKind(tree, p) ==
    IF p \in DirsOf(tree) THEN "dir"
    ELSE IF \E e \in tree : e.path = p THEN "file"
    ELSE "ENOENT"

\* fs.readdir(src, { withFileTypes: true })
readdir(tree, src) ==
    { [name |-> e.path[Len(e.path)], kind |-> e.kind] :
        e \in { x \in tree : Len(x.path) = Len(src) + 1 /\ IsPrefix(src, x.path) } }
    \cup
    { [name |-> d[Len(d)], kind |-> "dir"] :
        d \in { x \in DirsOf(tree) : Len(x) = Len(src) + 1 /\ IsPrefix(src, x) } }

\* path.relative(from, to) for a path `to` under `from`
relative(from, to) == SubSeq(to, Len(from) + 1, Len(to))

shouldExcludeMut(relativePath, excludePatterns) == FALSE

shouldExclude(relativePath, excludePatterns) ==
    \E i \in 1 .. Len(relativePath) : relativePath[i] \in excludePatterns

\* the files copied and the directories made, as paths from the destination
RECURSIVE copyDirectoryRecursive(_, _, _, _)
copyDirectoryRecursive(tree, src, rootSrc, excludePatterns) ==
    LET kept == { e \in readdir(tree, src) :
                    ~shouldExclude(relative(rootSrc, Append(src, e.name)),
                                   excludePatterns) }
        sub == { copyDirectoryRecursive(tree, Append(src, e.name), rootSrc,
                                        excludePatterns) :
                    e \in { x \in kept : x.kind = "dir" } }
    IN [files |-> { relative(rootSrc, Append(src, e.name)) :
                        e \in { x \in kept : x.kind = "file" } }
                  \cup UNION { s.files : s \in sub },
        dirs |-> {relative(rootSrc, src)} \cup UNION { s.dirs : s \in sub }]

copyFilesFrom(tree, distDir) ==
    LET sourcePath == IF distDir # None THEN Val(distDir) ELSE <<>>
        excludePatterns == IF distDir # None THEN {} ELSE DEFAULT_EXCLUDE_PATTERNS
    IN IF distDir # None /\ statKind(tree, sourcePath) = "ENOENT"
       THEN Reject(Err(0, "dist_dir does not exist"))
       ELSE IF distDir # None /\ statKind(tree, sourcePath) # "dir"
       THEN Reject(Err(0, "dist_dir exists but is not a directory"))
       ELSE [status |-> "ok", error |-> None,
             outputs |-> Some(copyDirectoryRecursive(tree, sourcePath, sourcePath,
                                                     excludePatterns))]

InitCopy ==
    /\ fs = RootDir
    /\ now = 0
    /\ pc = "idle"
    /\ call = "none"
    /\ stage = 0
    /\ started = <<>>
    /\ ctx = NoOutputs
    /\ t0 = 0
    /\ upd = NoUpd
    /\ hc = NoHC
    /\ res = NoRes
    /\ pre = fs
    /\ \E tree \in Trees(MaxEntries), distDir \in DistDirInputs :
            hist = [NoHist EXCEPT !.gen = Some([tree |-> tree, distDir |-> distDir])]

CallCopyFiles ==
    /\ pc = "idle"
    /\ call = "none"
    /\ call' = "copyFiles"
    /\ res' = copyFilesFrom(Val(hist.gen).tree, Val(hist.gen).distDir)
    /\ UNCHANGED <<fs, now, pc, stage, started, ctx, t0, upd, hc, pre, hist>>

NextCopy == CallCopyFiles

SpecCopy == InitCopy /\ [][NextCopy]_vars

\* a path with a component named in the denylist
Denied(p) == \E i \in 1 .. Len(p) : p[i] \in DEFAULT_EXCLUDE_PATTERNS

\* a call of copyFiles returned
Copied == call = "copyFiles" /\ res.status = "ok"

\* C38: copyFiles without distDir copies every regular file of the source tree
\* except those with a path component named in the denylist, and nothing under
\* such a component appears in the destination; with distDir it copies exactly
\* the regular files of that subtree, with no exclusions, and nothing from
\* outside it.
C38_CopySelection ==
    Copied =>
        LET tree == Val(hist.gen).tree
            distDir == Val(hist.gen).distDir
            out == Val(res.outputs)
            regular == { e.path : e \in { x \in tree : x.kind = "file" } }
        IN IF distDir = None
           THEN /\ out.files = { p \in regular : ~Denied(p) }
                /\ \A p \in out.files \cup out.dirs : ~Denied(p)
           ELSE out.files =
                    { relative(Val(distDir), p) :
                        p \in { q \in regular : IsPrefix(Val(distDir), q) } }

\* without distDir, a tree with a kept file and a file below a denied
\* directory
C38_Witness ==
    /\ Copied
    /\ Val(hist.gen).distDir = None
    /\ Val(hist.gen).tree =
            { [path |-> <<"src", "src">>, kind |-> "file"],
              [path |-> <<".git", "src">>, kind |-> "file"] }
    /\ Val(res.outputs).files = { <<"src", "src">> }

\* with distDir, a file with a denied name is copied and a file outside is not
C38_WitnessDist ==
    /\ Copied
    /\ Val(hist.gen).distDir = Some(<<"dist">>)
    /\ Val(hist.gen).tree =
            { [path |-> <<"dist", ".git">>, kind |-> "file"],
              [path |-> <<"src">>, kind |-> "file"] }
    /\ Val(res.outputs).files = { <<".git">> }

\* ---------------------------------------------------------- command input
\* src/action/utils/commands/parse: the input is a string, a sequence of
\* characters, built from at most MaxPieces pieces: words, white space, the
\* comment sign, JSON punctuation, string literals and a number
MaxPieces == 4
Quote == "\""
Literals == { <<Quote, "a", Quote>>, <<Quote, "b", Quote>>, <<Quote, Quote>>,
              <<Quote, " ", Quote>> }
Pieces ==
    { <<"a">>, <<"b">>, <<" ">>, <<"\n">>, <<"#">>, <<"[">>, <<"]">>, <<"{">>,
      <<",">>, <<"1">> } \cup Literals

RECURSIVE Texts(_)
Texts(n) ==
    IF n = 0 THEN {<<>>}
    ELSE LET shorter == Texts(n - 1)
         IN shorter \cup { t \o p : t \in shorter, p \in Pieces }

\* the JSON arrays of two string literals
ArrayTexts == { <<"[">> \o x \o <<",">> \o y \o <<"]">> : x, y \in Literals }

\* an absent input (undefined) is None
CommandInputs(n) == {None} \cup { Some(t) : t \in Texts(n) \cup ArrayTexts }

startsWith(s, c) == s # <<>> /\ Head(s) = c

includes(s, c) == \E i \in 1 .. Len(s) : s[i] = c

\* trimmed.split(c) for a separator of one character
RECURSIVE splitAt(_, _)
splitAt(s, c) ==
    IF ~includes(s, c) THEN <<s>>
    ELSE LET i == CHOOSE k \in 1 .. Len(s) :
                    s[k] = c /\ \A j \in 1 .. k - 1 : s[j] # c
         IN <<SubSeq(s, 1, i - 1)>> \o splitAt(SubSeq(s, i + 1, Len(s)), c)

\* JSON.parse of a text over the characters above. A value is a string, a
\* number or an array; anything else is a syntax error. pos is the position
\* after the value
JsonError == [ok |-> FALSE, pos |-> 0, val |-> <<>>]

RECURSIVE skipWs(_, _)
skipWs(s, i) == IF i <= Len(s) /\ s[i] \in WhiteSpace THEN skipWs(s, i + 1) ELSE i

\* a string literal whose opening quote is at i: no line feed inside it
parseStringAt(s, i) ==
    IF \E j \in i + 1 .. Len(s) : s[j] = Quote
    THEN LET j == CHOOSE k \in i + 1 .. Len(s) :
                    s[k] = Quote /\ \A m \in i + 1 .. k - 1 : s[m] # Quote
         IN IF \E m \in i + 1 .. j - 1 : s[m] = "\n"
            THEN JsonError
            ELSE [ok |-> TRUE, pos |-> j + 1,
                  val |-> [type |-> "string", v |-> SubSeq(s, i + 1, j - 1)]]
    ELSE JsonError

RECURSIVE digitsEnd(_, _)
digitsEnd(s, i) == IF i <= Len(s) /\ s[i] = "1" THEN digitsEnd(s, i + 1) ELSE i

RECURSIVE parseValueAt(_, _)
RECURSIVE parseElementsAt(_, _, _)

\* the elements of an array after its opening bracket or after a comma
parseElementsAt(s, i, acc) ==
    LET e == parseValueAt(s, skipWs(s, i))
        k == skipWs(s, e.pos)
    IN IF ~e.ok \/ k > Len(s) THEN JsonError
       ELSE IF s[k] = "]"
       THEN [ok |-> TRUE, pos |-> k + 1,
             val |-> [type |-> "array", v |-> Append(acc, e.val)]]
       ELSE IF s[k] = "," THEN parseElementsAt(s, k + 1, Append(acc, e.val))
       ELSE JsonError

parseValueAt(s, i) ==
    IF i > Len(s) THEN JsonError
    ELSE IF s[i] = Quote THEN parseStringAt(s, i)
    ELSE IF s[i] = "1"
    THEN [ok |-> TRUE, pos |-> digitsEnd(s, i), val |-> [type |-> "number", v |-> <<>>]]
    ELSE IF s[i] = "["
    THEN LET k == skipWs(s, i + 1)
         IN IF k <= Len(s) /\ s[k] = "]"
            THEN [ok |-> TRUE, pos |-> k + 1, val |-> [type |-> "array", v |-> <<>>]]
            ELSE parseElementsAt(s, i + 1, <<>>)
    ELSE JsonError

JSONparse(s) ==
    LET r == parseValueAt(s, skipWs(s, 1))
    IN IF r.ok /\ skipWs(s, r.pos) = Len(s) + 1 THEN r ELSE JsonError

NotBlank(cmd) == trim(cmd) # <<>>

IsCommandLine(line) == line # <<>> /\ ~startsWith(line, "#")

parseCommandInput(input) ==
    IF input = None \/ Val(input) = <<>> \/ trim(Val(input)) = <<>>
    THEN [status |-> "ok", error |-> None, outputs |-> None]
    ELSE LET trimmed == trim(Val(input))
         IN IF startsWith(trimmed, "[") \/ startsWith(trimmed, "{")
            THEN LET parsed == JSONparse(trimmed)
                 IN IF ~parsed.ok \/ parsed.val.type # "array"
                       \/ \E i \in 1 .. Len(parsed.val.v) :
                              parsed.val.v[i].type # "string"
                    THEN Reject(Err(0, "Failed to parse as JSON"))
                    ELSE [status |-> "ok", error |-> None,
                          outputs |->
                            Some(SelectSeq([i \in 1 .. Len(parsed.val.v) |->
                                            parsed.val.v[i].v], NotBlank))]
            ELSE IF includes(trimmed, "\n")
            THEN LET lines == splitAt(trimmed, "\n")
                     commands == SelectSeq([i \in 1 .. Len(lines) |-> trim(lines[i])],
                                        IsCommandLine)
                 IN [status |-> "ok", error |-> None,
                     outputs |-> IF Len(commands) > 0 THEN Some(commands) ELSE None]
            ELSE [status |-> "ok", error |-> None, outputs |-> Some(<<trimmed>>)]

InitParse ==
    /\ fs = RootDir
    /\ now = 0
    /\ pc = "idle"
    /\ call = "none"
    /\ stage = 0
    /\ started = <<>>
    /\ ctx = NoOutputs
    /\ t0 = 0
    /\ upd = NoUpd
    /\ hc = NoHC
    /\ res = NoRes
    /\ pre = fs
    /\ \E input \in CommandInputs(MaxPieces) :
            hist = [NoHist EXCEPT !.cmds = Some(input)]

CallParseCommandInput ==
    /\ pc = "idle"
    /\ call = "none"
    /\ call' = "parseCommandInput"
    /\ res' = parseCommandInput(Val(hist.cmds))
    /\ UNCHANGED <<fs, now, pc, stage, started, ctx, t0, upd, hc, pre, hist>>

NextParse == CallParseCommandInput

SpecParse == InitParse /\ [][NextParse]_vars

\* the commands cmds occur in the text s from position i on, one after the
\* other in this order
RECURSIVE InOrder(_, _, _)
InOrder(cmds, s, i) ==
    \/ cmds = <<>>
    \/ LET c == Head(cmds)
           at == { k \in i .. Len(s) - Len(c) + 1 : SubSeq(s, k, k + Len(c) - 1) = c }
       IN /\ at # {}
          /\ InOrder(Tail(cmds), s,
                     (CHOOSE k \in at : \A m \in at : k <= m) + Len(c))

\* a call of parseCommandInput returned
Parsed == call = "parseCommandInput" /\ res.status = "ok"

\* C39: parseCommandInput returns undefined whenever the input yields no
\* command, and otherwise a non-empty list, in input order, of commands none
\* of which is empty or whitespace-only, for a single command, a JSON array
\* and a multiline script alike.
C39_ParseResult ==
    Parsed =>
        \/ res.outputs = None
        \/ /\ Val(res.outputs) # <<>>
           /\ \A i \in 1 .. Len(Val(res.outputs)) : trim(Val(res.outputs)[i]) # <<>>
           /\ InOrder(Val(res.outputs), Val(Val(hist.cmds)), 1)

\* what holds of every returned value: undefined or a list, in input order, of
\* commands that are not blank; the list can be empty
C39_ParseResultOrEmpty ==
    Parsed =>
        \/ res.outputs = None
        \/ /\ \A i \in 1 .. Len(Val(res.outputs)) : trim(Val(res.outputs)[i]) # <<>>
           /\ InOrder(Val(res.outputs), Val(Val(hist.cmds)), 1)

\* a JSON array of two commands is returned in its order
C39_Witness ==
    /\ Parsed
    /\ Val(hist.cmds) = Some(<<"[", Quote, "b", Quote, ",", Quote, "a", Quote, "]">>)
    /\ res.outputs = Some(<< <<"b">>, <<"a">> >>)

\* a script of two lines
C39_WitnessScript ==
    /\ Parsed
    /\ Val(hist.cmds) = Some(<<"b", " ", "\n", "a">>)
    /\ res.outputs = Some(<< <<"b">>, <<"a">> >>)

====
